---- MODULE Spec2Model ----
(***************************************************************************)
(* A model of flask-imagekit: the cache-file state backend                 *)
(* (cachefiles/backends.py), the image-spec field descriptor               *)
(* (models/fields/utils.py), the template helper (template.py), the signal *)
(* channels (signals.py), the generator registry and the storage's         *)
(* collision-avoiding naming (django_ported/storage.py).                   *)
(*                                                                         *)
(* Each component has a specification of its own (SpecSeq, SpecDesc, ...): *)
(* the components share no state, so a specification moves the variables   *)
(* of one component and leaves the others at their initial value.          *)
(***************************************************************************)
EXTENDS Integers, Sequences, FiniteSets, TLC

VARIABLES
    \* ---- cache-file state backend (cachefiles/backends.py) ----
    written,    \* per cache-file name: the last cache.set of its state key: value, timeout, age
    present,    \* per cache-file name: whether that entry is still in the cache
    stored,     \* per cache-file name: whether the storage holds a file under the name
    pc,         \* per caller: where the caller is in its current call
    op,         \* per caller: the public method being called
    force,      \* per caller: the force argument of generate / generate_now
    chk,        \* per caller: the check_if_unknown argument of get_state
    st,         \* per caller: the local variable `state` of get_state, `err` of generate_now's handler
    ex,         \* per caller: the local variable `exists` of get_state
    ret,        \* per caller: what the last finished call returned
    raised,     \* per caller: whether the last finished call ended by an exception
    hasFile,    \* per caller: whether the caller's cache-file object holds content (file._file)
    fobj,       \* per caller: the name of the caller's cache-file object
    lastChange, \* per cache-file name: what changed the storage last ("created" and "removed" are out of band)
    quiet,      \* storage is no longer changed and nothing is generated any more
    content,    \* per cache-file name: the bytes the storage holds under the name
    aliased,    \* per cache-file name: the storage holds bytes of the file under another name as well
    lastGen,    \* per cache-file name: the bytes under the name after the first of the forced generations made in succession
                \* (nothing else changed the storage, none failed), whether one or more of them have saved, and whether
                \* the last generation of the name failed
    seen,       \* per caller: what cache.get returned to get_state in the current call ("unread": not called)
    invoked,    \* per caller: file._generate in the current call ("no", "running", "returned", "raised")
    checks,     \* per caller: the existence checks (_exists) of the current call
    writes      \* per caller: the cache.set calls of the current call

VARIABLES
    \* ---- image-spec field descriptor (models/fields/utils.py) ----
    idict,      \* per record instance: instance.__dict__[attname] (None: no such key)
    nextObj,    \* the cache-file objects built so far (the next one's identity)
    builds,     \* per record instance: specifications built by reads since the last write
    lastRead,   \* per record instance: what the last read of the attribute returned
    prevRead,   \* per record instance: what the read before it returned (None after a write)
    assigned,   \* per record instance: the value assigned since the last read (None: none)
    readAfter   \* per record instance: the value assigned just before the last read (None: none)

VARIABLES
    \* ---- template helper (template.py) ----
    attrDict,   \* per dict object: its html attributes; object 0 is generateimage's default {}
    renderObj,  \* the GenerateImage objects built so far, in order
    tags        \* per GenerateImage object: the attributes of its last rendered tag (no src: never rendered)

VARIABLES
    \* ---- signal channels (signals.py) ----
    receivers,  \* per channel: the callbacks connected to it
    calls,      \* per channel and callback: how many times the callback was invoked with it
    due,        \* per channel and callback: the sends on the channel made while the callback was connected
    sends       \* the sends made so far

VARIABLES
    \* ---- generator registry (registry.py) ----
    generators, \* per identifier: the generator bound to it (None: unbound)
    freed,      \* per identifier: it was bound, then unregistered, and not bound since
    rejected,   \* per identifier: a registration under it was refused at some point
    hostId,     \* per spec host: its spec_id attribute (NoId: not set)
    lastReg     \* the last registry operation: what it was given, what was bound before, how it ended

VARIABLES
    \* ---- storage naming (django_ported/storage.py) ----
    holds,      \* the storage: per name it was asked about or given, whether it holds a file by that name
    gaPc,       \* where the get_available_name call is
    gaArg,      \* the name the call was given
    gaName,     \* the local variable `name`
    max_length, \* the argument max_length
    dir_name,   \* the local variable `dir_name`
    file_root,  \* the local variable `file_root`
    file_ext    \* the local variable `file_ext`

VARIABLES
    \* ---- FileSystemStorage, two concurrent saves (django_ported/storage.py) ----
    fsFiles,    \* per file name: who wrote the file the name refers to and how many of its chunks are in it (NoFile: no such file)
    fsDir,      \* whether the directory of the files exists
    svPc,       \* per writer: where its save is
    svKind,     \* per writer: whether its content has a temporary_file_path ("tempfile") or is streamed ("stream")
    svName,     \* per writer: the local `name` of save/_save
    svFirst,    \* per writer: the name Storage.save resolved before calling _save
    svSawDir,   \* per writer: what os.path.exists(directory) answered
    svRet       \* per writer: the name save returned (NoName: none yet)

VARIABLES
    \* ---- settings (conf.py) and the bootstrap (__init__.py) ----
    confAttrs,  \* the attributes of the settings object: name -> value
    confKw,     \* the keyword arguments of the last set_configs
    confRaised, \* whether the last set_configs ended by an exception
    bootPc,     \* where initialize_imagekit is
    bootLog,    \* the steps initialize_imagekit has taken in this call, in order
    bootViews,  \* the views of admin._views still to scan
    currentApp, \* the application bound as current (None: none)
    templateGlobals, \* the names registered as template globals of the application
    contributed, \* the (model, attribute) pairs contribute_to_class was called for
    bootGiven,  \* admin._views of the running or last call
    bootRuns,   \* how many times initialize_imagekit was called
    contribCalls, \* per (model, attribute): calls of contribute_to_class that installed a descriptor
    contribDone, \* per (model, attribute): calls that wrapped __init__ and registered a source group
    built       \* the last construction of a record since the bootstrap returned

VARIABLES
    \* ---- ImageSpec.generate (specs/__init__.py) ----
    spSource,   \* spec._source
    spFieldData, \* the value of the instance attribute spec._field_data points to (NoFieldData: no _field_data)
    spFormat,   \* spec.format
    spPc,       \* where generate is
    spOpened,   \* how many times this call of generate called open_image
    spProcessed, \* whether this call of generate called process_image
    spResult    \* how the last call of generate ended: the image it returned or the error it raised

VARIABLES
    \* ---- get_image (model_helpers/__init__.py) ----
    imgField,   \* the argument of the last get_image
    imgRoot,    \* conf.MEDIA_ROOT at that call
    imgPrefix,  \* conf.BASE_PREFIX at that call
    imgResult   \* what the call returned or raised

VARIABLES
    \* ---- S3BotoStorageFile (django_ported/storage.py) ----
    s3State,    \* whether there is a file object, open or closed
    s3Mode,     \* file._mode
    s3Dirty,    \* file._is_dirty
    s3Multipart, \* file._multipart: None, or the multipart upload and what became of it
    s3Buffer,   \* the bytes in file._file (empty when _file is None)
    s3Counter,  \* file._write_counter
    s3Parts,    \* the parts uploaded, in upload order: part number and bytes
    s3Written,  \* all the bytes handed to write, in order
    s3Completes, \* how many times complete_upload was called
    s3Raised    \* whether the last write raised AttributeError

VARIABLES
    \* ---- get_singleton and sanitize_cache_key (utils.py) ----
    _singletons, \* the module's dictionary: class -> instance
    constructed, \* per class: how many times cls() was called
    handed,     \* per class: the instances get_singleton has returned
    lastGet,    \* the last call of get_singleton: its path and its result
    sanFlag,    \* conf.IMAGEKIT_USE_MEMCACHED_SAFE_CACHE_KEY
    sanName,    \* file.name of the last get_key
    sanKey      \* what that get_key returned

VARIABLES
    \* ---- a storage object: save then exists (django_ported/storage.py) ----
    bkKind,     \* the class of the storage object
    bkPrefix,   \* S3Storage.prefix (conf.BASE_PREFIX)
    bkObjects,  \* what the directory or the bucket holds: <<key, content>>
    bkEntries,  \* the keys of S3Storage._entries
    bkSaved,    \* the last save: the name given, the name returned, the content
    bkLast,     \* the last exists: the name asked and the answer
    bkSaves     \* how many saves were made

descVars == <<idict, nextObj, builds, lastRead, prevRead, assigned, readAfter>>
tplVars == <<attrDict, renderObj, tags>>
sigVars == <<receivers, calls, due, sends>>
regVars == <<generators, freed, rejected, hostId, lastReg>>
confVars == <<confAttrs, confKw, confRaised>>
bootVars == <<bootPc, bootLog, bootViews, currentApp, templateGlobals, contributed, bootGiven, bootRuns, contribCalls, contribDone, built>>
genVars == <<spSource, spFieldData, spFormat, spPc, spOpened, spProcessed, spResult>>
imgVars == <<imgField, imgRoot, imgPrefix, imgResult>>
singleVars == <<_singletons, constructed, handed, lastGet>>
sanVars == <<sanFlag, sanName, sanKey>>
bkVars == <<bkKind, bkPrefix, bkObjects, bkEntries, bkSaved, bkLast, bkSaves>>
s3Vars == <<s3State, s3Mode, s3Dirty, s3Multipart, s3Buffer, s3Counter, s3Parts, s3Written, s3Completes, s3Raised>>
fsVars == <<fsFiles, fsDir, svPc, svKind, svName, svFirst, svSawDir, svRet>>
nameVars == <<holds, gaPc, gaArg, gaName, max_length, dir_name, file_root, file_ext>>

storeVars == <<content, aliased, lastGen>>
callVars == <<seen, invoked, checks, writes>>

backendVars == <<written, present, stored, pc, op, force, chk, st, ex, ret, raised, hasFile, fobj, lastChange, quiet,
                 storeVars, callVars>>

vars == <<backendVars, descVars, tplVars, sigVars, regVars, nameVars, fsVars, confVars, bootVars, genVars, imgVars, s3Vars, singleVars, sanVars, bkVars>>

notBackend == <<descVars, tplVars, sigVars, regVars, nameVars, fsVars, confVars, bootVars, genVars, imgVars, s3Vars, singleVars, sanVars, bkVars>>
notDesc == <<backendVars, tplVars, sigVars, regVars, nameVars, fsVars, confVars, bootVars, genVars, imgVars, s3Vars, singleVars, sanVars, bkVars>>
notTpl == <<backendVars, descVars, sigVars, regVars, nameVars, fsVars, confVars, bootVars, genVars, imgVars, s3Vars, singleVars, sanVars, bkVars>>
notSig == <<backendVars, descVars, tplVars, regVars, nameVars, fsVars, confVars, bootVars, genVars, imgVars, s3Vars, singleVars, sanVars, bkVars>>
notReg == <<backendVars, descVars, tplVars, sigVars, nameVars, fsVars, confVars, bootVars, genVars, imgVars, s3Vars, singleVars, sanVars, bkVars>>
notFs == <<backendVars, descVars, tplVars, sigVars, regVars, nameVars, confVars, bootVars, genVars, imgVars, s3Vars, singleVars, sanVars, bkVars>>
notConfBoot == <<backendVars, descVars, tplVars, sigVars, regVars, nameVars, fsVars, genVars, imgVars, s3Vars, singleVars, sanVars, bkVars>>
notConf == <<notConfBoot, bootVars>>
notGen == <<backendVars, descVars, tplVars, sigVars, regVars, nameVars, fsVars, confVars, bootVars, imgVars, s3Vars, singleVars, sanVars, bkVars>>
notImg == <<backendVars, descVars, tplVars, sigVars, regVars, nameVars, fsVars, confVars, bootVars, genVars, s3Vars, singleVars, sanVars, bkVars>>
notS3 == <<backendVars, descVars, tplVars, sigVars, regVars, nameVars, fsVars, confVars, bootVars, genVars, imgVars, singleVars, sanVars, bkVars>>
notSingle == <<backendVars, descVars, tplVars, sigVars, regVars, nameVars, fsVars, confVars, bootVars, genVars, imgVars, s3Vars, sanVars, bkVars>>
notSan == <<backendVars, descVars, tplVars, sigVars, regVars, nameVars, fsVars, confVars, bootVars, genVars, imgVars, s3Vars, singleVars, bkVars>>
notBk == <<backendVars, descVars, tplVars, sigVars, regVars, nameVars, fsVars, confVars, bootVars, genVars, imgVars, s3Vars, singleVars, sanVars>>
notName == <<backendVars, descVars, tplVars, sigVars, regVars, fsVars, confVars, bootVars, genVars, imgVars, s3Vars, singleVars, sanVars, bkVars>>

(***************************************************************************)
(* Cache-file states (backends.py, CacheFileState) and Python's None.      *)
(***************************************************************************)
EXISTS == "exists"
GENERATING == "generating"
DOES_NOT_EXIST == "does_not_exist"
None == "None"

CacheFileState == {EXISTS, GENERATING, DOES_NOT_EXIST}

\* CachedFileBackend.existence_check_timeout, in seconds.
existence_check_timeout == 5

\* cache.set(key, value) without a timeout: the cache's own default applies.
NoTimeout == 0

\* The cache-file names and the callers of the model.
Files == {"f1"}
Callers == {1, 2}

\* Ages are counted in seconds up to one past the recheck window; an entry
\* written without a timeout lives by the cache's default timeout, which is
\* longer than the recheck window (werkzeug's SimpleCache: 300 s), so it can
\* only be dropped once its age has passed the window.
AgeCap == existence_check_timeout + 1

Unwritten == [val |-> None, timeout |-> NoTimeout, age |-> 0]

\* What the storage holds under a name: nothing, the bytes the file's
\* generator produces (it is deterministic), or other bytes.
NoBytes == "nothing"
Generated == "generated"
OtherBytes == "other"

NoGen == [bytes |-> NoBytes, calls |-> 0, failed |-> FALSE]
FailedGen == [bytes |-> NoBytes, calls |-> 0, failed |-> TRUE]

\* The errors a generation routine raises (all of them subclasses of Exception).
GenErrors == {"MissingSource", "IOError"}

(***************************************************************************)
(* The shared cache (utils.get_cache), one key per cache-file name         *)
(* (get_key: prefix + file.name + "-state").                               *)
(***************************************************************************)
CacheGet(f) == IF present[f] THEN written[f].val ELSE None

\* cache.set(key, value, timeout): the entry replaces any earlier one.
CacheSet(f, value, timeout) ==
    /\ written' = [written EXCEPT ![f] = [val |-> value, timeout |-> timeout, age |-> 0]]
    /\ present' = [present EXCEPT ![f] = TRUE]

\* A variant of set_state that gives every state the recheck timeout.
set_state_with_timeout(f, state) == CacheSet(f, state, existence_check_timeout)

\* CachedFileBackend.set_state
set_state(f, state) ==
    IF state = DOES_NOT_EXIST
    THEN CacheSet(f, state, existence_check_timeout)
    ELSE CacheSet(f, state, NoTimeout)

\* A variant of _exists that never asks the storage.
_exists_content_only(c, f) == hasFile[c]

\* Simple._exists: the file object's own content, or the storage
_exists(c, f) == hasFile[c] \/ stored[f]

(***************************************************************************)
(* The state after import: nothing is cached, no call is running.  The     *)
(* storage may already hold a file under a name (an earlier process wrote  *)
(* it).                                                                    *)
(***************************************************************************)
InitBackend ==
    /\ written = [f \in Files |-> Unwritten]
    /\ present = [f \in Files |-> FALSE]
    /\ stored \in [Files -> BOOLEAN]
    /\ pc = [c \in Callers |-> "idle"]
    /\ op = [c \in Callers |-> None]
    /\ force = [c \in Callers |-> FALSE]
    /\ chk = [c \in Callers |-> TRUE]
    /\ st = [c \in Callers |-> None]
    /\ ex = [c \in Callers |-> FALSE]
    /\ ret = [c \in Callers |-> None]
    /\ raised = [c \in Callers |-> FALSE]
    /\ hasFile = [c \in Callers |-> FALSE]
    /\ fobj \in [Callers -> Files]
    /\ lastChange = [f \in Files |-> None]
    /\ quiet = FALSE
    /\ content = [f \in Files |-> IF stored[f] THEN Generated ELSE NoBytes]
    /\ aliased = [f \in Files |-> FALSE]
    /\ lastGen = [f \in Files |-> NoGen]
    /\ seen = [c \in Callers |-> "unread"]
    /\ invoked = [c \in Callers |-> "no"]
    /\ checks = [c \in Callers |-> 0]
    /\ writes = [c \in Callers |-> 0]

\* A call starts: its arguments are stored, its locals are fresh.
Enter(c, o, frc, ck, first) ==
    /\ pc[c] = "idle"
    /\ pc' = [pc EXCEPT ![c] = first]
    /\ op' = [op EXCEPT ![c] = o]
    /\ force' = [force EXCEPT ![c] = frc]
    /\ chk' = [chk EXCEPT ![c] = ck]
    /\ st' = [st EXCEPT ![c] = None]
    /\ ex' = [ex EXCEPT ![c] = FALSE]
    /\ raised' = [raised EXCEPT ![c] = FALSE]
    /\ seen' = [seen EXCEPT ![c] = "unread"]
    /\ invoked' = [invoked EXCEPT ![c] = "no"]
    /\ checks' = [checks EXCEPT ![c] = 0]
    /\ writes' = [writes EXCEPT ![c] = 0]
    /\ UNCHANGED <<written, present, stored, ret, hasFile, fobj, lastChange, quiet, storeVars, notBackend>>

\* A call returns value v (or ends by an exception when exc).
Leave(c, v, exc) ==
    /\ pc' = [pc EXCEPT ![c] = "idle"]
    /\ ret' = [ret EXCEPT ![c] = v]
    /\ raised' = [raised EXCEPT ![c] = exc]

\* get_state(file, check_if_unknown)
CallGetState(c) ==
    \E ck \in BOOLEAN : Enter(c, "get_state", FALSE, ck, "gs_get")

\* exists(file): get_state(file) == EXISTS
CallExists(c) == Enter(c, "exists", FALSE, TRUE, "gs_get")

\* A variant of the test of generate_now that reads the state whatever force is.
generate_now_unforced(frc) == "gs_get"

\* generate_now(file, force): `force or self.get_state(file) not in (...)`
\* evaluates get_state only when force is false.
generate_now_entry(frc) == IF frc THEN "gn_set_generating" ELSE "gs_get"

CallGenerateNow(c) ==
    /\ ~quiet
    /\ \E frc \in BOOLEAN : Enter(c, "generate_now", frc, TRUE, generate_now_entry(frc))

\* Simple.generate(file, force): generate_now(file, force=force)
CallGenerate(c) ==
    /\ ~quiet
    /\ \E frc \in BOOLEAN : Enter(c, "generate", frc, TRUE, generate_now_entry(frc))

\* A variant in which generate_now goes on whatever state it got.
AfterGetStateAnyState(c, state) ==
    CASE op[c] = "get_state" -> Leave(c, state, FALSE)
      [] op[c] = "exists" -> Leave(c, IF state = EXISTS THEN "True" ELSE "False", FALSE)
      [] OTHER ->
            /\ pc' = [pc EXCEPT ![c] = "gn_set_generating"]
            /\ UNCHANGED <<ret, raised>>

\* JustInTime.on_existence_required / on_content_required: file.generate(),
\* which hands the file to the backend's generate without force.
StrategyMethods == {"on_existence_required", "on_content_required"}

CallStrategy(c) ==
    /\ ~quiet
    /\ \E m \in StrategyMethods : Enter(c, m, FALSE, TRUE, generate_now_entry(FALSE))

\* What the caller of get_state does with the state it got.
AfterGetState(c, state) ==
    CASE op[c] = "get_state" -> Leave(c, state, FALSE)
      [] op[c] = "exists" -> Leave(c, IF state = EXISTS THEN "True" ELSE "False", FALSE)
      [] OTHER ->
            IF state \notin {GENERATING, EXISTS}
            THEN /\ pc' = [pc EXCEPT ![c] = "gn_set_generating"]
                 /\ UNCHANGED <<ret, raised>>
            ELSE Leave(c, None, FALSE)

\* A variant of get_state that checks whatever check_if_unknown is.
GsGetAlwaysChecks(c) ==
    /\ pc[c] = "gs_get"
    /\ LET state == CacheGet(fobj[c])
       IN  /\ st' = [st EXCEPT ![c] = state]
           /\ IF state = None
              THEN /\ pc' = [pc EXCEPT ![c] = "gs_exists"]
                   /\ UNCHANGED <<ret, raised>>
              ELSE AfterGetState(c, state)
    /\ seen' = [seen EXCEPT ![c] = CacheGet(fobj[c])]
    /\ UNCHANGED <<written, present, stored, op, force, chk, ex, hasFile, fobj, lastChange, quiet, storeVars, invoked, checks, writes, notBackend>>

\* get_state, line 42: state = self.cache.get(key)
GsGet(c) ==
    /\ pc[c] = "gs_get"
    /\ LET state == CacheGet(fobj[c])
       IN  /\ st' = [st EXCEPT ![c] = state]
           /\ IF state = None /\ chk[c]
              THEN /\ pc' = [pc EXCEPT ![c] = "gs_exists"]
                   /\ UNCHANGED <<ret, raised>>
              ELSE AfterGetState(c, state)
    /\ seen' = [seen EXCEPT ![c] = CacheGet(fobj[c])]
    /\ UNCHANGED <<written, present, stored, op, force, chk, ex, hasFile, fobj, lastChange, quiet, storeVars, invoked, checks, writes, notBackend>>

\* get_state, line 44: exists = self._exists(file)
GsExists(c) ==
    /\ pc[c] = "gs_exists"
    /\ ex' = [ex EXCEPT ![c] = _exists(c, fobj[c])]
    /\ pc' = [pc EXCEPT ![c] = "gs_set"]
    /\ checks' = [checks EXCEPT ![c] = @ + 1]
    /\ UNCHANGED <<written, present, stored, op, force, chk, st, ret, raised, hasFile, fobj, lastChange, quiet, storeVars, seen, invoked, writes, notBackend>>

\* A variant of the step that takes the file for missing whatever the
\* existence check found.
GsSetAssumeMissing(c) ==
    /\ pc[c] = "gs_set"
    /\ set_state(fobj[c], DOES_NOT_EXIST)
    /\ st' = [st EXCEPT ![c] = DOES_NOT_EXIST]
    /\ AfterGetState(c, DOES_NOT_EXIST)
    /\ writes' = [writes EXCEPT ![c] = @ + 1]
    /\ UNCHANGED <<stored, op, force, chk, ex, hasFile, fobj, lastChange, quiet, storeVars, seen, invoked, checks, notBackend>>

\* get_state, lines 45-47: the state is derived, recorded and returned
GsSet(c) ==
    /\ pc[c] = "gs_set"
    /\ LET state == IF ex[c] THEN EXISTS ELSE DOES_NOT_EXIST
       IN  /\ set_state(fobj[c], state)
           /\ st' = [st EXCEPT ![c] = state]
           /\ AfterGetState(c, state)
    /\ writes' = [writes EXCEPT ![c] = @ + 1]
    /\ UNCHANGED <<stored, op, force, chk, ex, hasFile, fobj, lastChange, quiet, storeVars, seen, invoked, checks, notBackend>>

\* A variant of the step that does not mark the file GENERATING.
GnSkipGenerating(c) ==
    /\ pc[c] = "gn_set_generating"
    /\ pc' = [pc EXCEPT ![c] = "gn_generate"]
    /\ invoked' = [invoked EXCEPT ![c] = "running"]
    /\ UNCHANGED <<written, present, stored, op, force, chk, st, ex, ret, raised, hasFile, fobj, lastChange, quiet, storeVars, seen, checks, writes, notBackend>>

\* generate_now, line 71: self.set_state(file, GENERATING)
GnSetGenerating(c) ==
    /\ pc[c] = "gn_set_generating"
    /\ set_state(fobj[c], GENERATING)
    /\ pc' = [pc EXCEPT ![c] = "gn_generate"]
    /\ writes' = [writes EXCEPT ![c] = @ + 1]
    /\ invoked' = [invoked EXCEPT ![c] = "running"]
    /\ UNCHANGED <<stored, op, force, chk, st, ex, ret, raised, hasFile, fobj, lastChange, quiet, storeVars, seen, checks, notBackend>>

\* A variant of the save that replaces what the name holds, by bytes that
\* differ from one generation to the next.
SaveDifferentBytes(f) ==
    /\ stored' = [stored EXCEPT ![f] = TRUE]
    /\ content' = [content EXCEPT ![f] = IF @ = Generated THEN OtherBytes ELSE Generated]
    /\ UNCHANGED aliased

\* Storage.save(name, content) as file._generate calls it, the storage left
\* alone meanwhile (storage.py, lines 44-50): the name is resolved through
\* get_available_name, so the bytes go under the name itself only when the
\* storage holds nothing under it, and under another name otherwise.
SaveGenerated(f) ==
    IF stored[f]
    THEN /\ aliased' = [aliased EXCEPT ![f] = TRUE]
         /\ UNCHANGED <<stored, content>>
    ELSE /\ stored' = [stored EXCEPT ![f] = TRUE]
         /\ content' = [content EXCEPT ![f] = Generated]
         /\ UNCHANGED aliased

\* file._generate() returns: the bytes were saved in the storage and the
\* file object holds the generated content.
GnGenerateOk(c) ==
    /\ pc[c] = "gn_generate"
    /\ SaveGenerated(fobj[c])
    /\ lastChange' = [lastChange EXCEPT ![fobj[c]] = "generated"]
    /\ hasFile' = [hasFile EXCEPT ![c] = TRUE]
    /\ lastGen' = [lastGen EXCEPT ![fobj[c]] =
                       IF ~force[c] THEN NoGen
                       ELSE IF @.calls = 0 THEN [bytes |-> content'[fobj[c]], calls |-> 1, failed |-> FALSE]
                       ELSE [bytes |-> @.bytes, calls |-> 2, failed |-> FALSE]]
    /\ invoked' = [invoked EXCEPT ![c] = "returned"]
    /\ pc' = [pc EXCEPT ![c] = "gn_set_exists"]
    /\ UNCHANGED <<written, present, op, force, chk, st, ex, ret, raised, fobj, quiet, seen, checks, writes, notBackend>>

\* file._generate() raises (lines 72-75): control passes to the handler.
GnGenerateRaise(c) ==
    /\ pc[c] = "gn_generate"
    /\ \E e \in GenErrors : st' = [st EXCEPT ![c] = e]
    /\ pc' = [pc EXCEPT ![c] = "gn_except"]
    /\ invoked' = [invoked EXCEPT ![c] = "raised"]
    /\ lastGen' = [lastGen EXCEPT ![fobj[c]] = FailedGen]
    /\ UNCHANGED <<written, present, stored, op, force, chk, ex, ret, raised, hasFile, fobj, lastChange, quiet, content, aliased, seen, checks, writes, notBackend>>

\* A variant of the step that returns without recording EXISTS.
GnReturnUnrecorded(c) ==
    /\ pc[c] = "gn_set_exists"
    /\ Leave(c, None, FALSE)
    /\ UNCHANGED <<written, present, stored, op, force, chk, st, ex, hasFile, fobj, lastChange, quiet, storeVars, callVars, notBackend>>

\* generate_now, line 74: self.set_state(file, EXISTS), and the call returns.
GnSetExists(c) ==
    /\ pc[c] = "gn_set_exists"
    /\ set_state(fobj[c], EXISTS)
    /\ Leave(c, None, FALSE)
    /\ writes' = [writes EXCEPT ![c] = @ + 1]
    /\ UNCHANGED <<stored, op, force, chk, st, ex, hasFile, fobj, lastChange, quiet, content, aliased, lastGen, seen, invoked, checks, notBackend>>

\* A variant of the handler that lets the error through.
GnExceptReraise(c) ==
    /\ pc[c] = "gn_except"
    /\ Leave(c, None, TRUE)
    /\ UNCHANGED <<written, present, stored, op, force, chk, st, ex, hasFile, fobj, lastChange, quiet, storeVars, callVars, notBackend>>

\* generate_now, lines 75-77: the handler logs a warning through the current
\* application, marks the file as not existing, and the call returns.
GnExcept(c) ==
    /\ pc[c] = "gn_except"
    /\ set_state(fobj[c], DOES_NOT_EXIST)
    /\ Leave(c, None, FALSE)
    /\ writes' = [writes EXCEPT ![c] = @ + 1]
    /\ UNCHANGED <<stored, op, force, chk, st, ex, hasFile, fobj, lastChange, quiet, storeVars, seen, invoked, checks, notBackend>>

\* One second passes: every entry ages; an entry written with a timeout is
\* gone once its age reaches the timeout.
Aged(e) == IF e.val = None THEN e
           ELSE [e EXCEPT !.age = IF e.age < AgeCap THEN e.age + 1 ELSE AgeCap]

Tick ==
    /\ written' = [f \in Files |-> Aged(written[f])]
    /\ present' = [f \in Files |->
                      /\ present[f]
                      /\ ~(/\ written[f].timeout # NoTimeout
                           /\ Aged(written[f]).age >= written[f].timeout)]
    /\ UNCHANGED <<stored, pc, op, force, chk, st, ex, ret, raised, hasFile, fobj, lastChange, quiet, storeVars, callVars, notBackend>>

\* The cache drops an entry written without a timeout: its default timeout,
\* longer than the recheck window, has passed.
DefaultExpire(f) ==
    /\ present[f]
    /\ written[f].timeout = NoTimeout
    /\ written[f].age >= AgeCap
    /\ present' = [present EXCEPT ![f] = FALSE]
    /\ UNCHANGED <<written, stored, pc, op, force, chk, st, ex, ret, raised, hasFile, fobj, lastChange, quiet, storeVars, callVars, notBackend>>

\* Out of band: another process puts a file under the name, or removes it.
OobCreate(f) ==
    /\ ~quiet
    /\ ~stored[f]
    /\ stored' = [stored EXCEPT ![f] = TRUE]
    /\ lastChange' = [lastChange EXCEPT ![f] = "created"]
    /\ \E b \in {Generated, OtherBytes} : content' = [content EXCEPT ![f] = b]
    /\ lastGen' = [lastGen EXCEPT ![f] = NoGen]
    /\ UNCHANGED <<written, present, pc, op, force, chk, st, ex, ret, raised, hasFile, fobj, quiet, aliased, callVars, notBackend>>

OobRemove(f) ==
    /\ ~quiet
    /\ stored[f]
    /\ stored' = [stored EXCEPT ![f] = FALSE]
    /\ lastChange' = [lastChange EXCEPT ![f] = "removed"]
    /\ content' = [content EXCEPT ![f] = NoBytes]
    /\ lastGen' = [lastGen EXCEPT ![f] = NoGen]
    /\ UNCHANGED <<written, present, pc, op, force, chk, st, ex, ret, raised, hasFile, fobj, quiet, aliased, callVars, notBackend>>

\* The caller drops its cache-file object and builds a new one (cache files
\* are constructed per access): the new object holds no content.
NewFileObject(c) ==
    /\ pc[c] = "idle"
    /\ hasFile[c]
    /\ hasFile' = [hasFile EXCEPT ![c] = FALSE]
    /\ \E f \in Files : fobj' = [fobj EXCEPT ![c] = f]
    /\ UNCHANGED <<written, present, stored, pc, op, force, chk, st, ex, ret, raised, lastChange, quiet, storeVars, callVars, notBackend>>

\* From now on the storage is left alone and nothing is generated.
Quiesce ==
    /\ ~quiet
    /\ \A c \in Callers : pc[c] = "idle"
    /\ quiet' = TRUE
    /\ UNCHANGED <<written, present, stored, pc, op, force, chk, st, ex, ret, raised, hasFile, fobj, lastChange, storeVars, callVars, notBackend>>

CallerStep(c) ==
    \/ CallGetState(c)
    \/ CallExists(c)
    \/ CallGenerateNow(c)
    \/ CallGenerate(c)
    \/ GsGet(c)
    \/ GsExists(c)
    \/ GsSet(c)
    \/ GnSetGenerating(c)
    \/ GnGenerateOk(c)
    \/ GnGenerateRaise(c)
    \/ GnSetExists(c)
    \/ GnExcept(c)

Environment ==
    \/ Tick
    \/ \E f \in Files : DefaultExpire(f)
    \/ \E f \in Files : OobCreate(f)
    \/ \E f \in Files : OobRemove(f)
    \/ NewFileObject(1)
    \/ Quiesce

(***************************************************************************)
(* The image-spec field descriptor (models/fields/utils.py).               *)
(***************************************************************************)
Instances == {"i1", "i2"}

\* Values a caller assigns to the attribute (pre-built files).
Injected == {[kind |-> "injected", name |-> "v1"], [kind |-> "injected", name |-> "v2"]}

\* No value (Python's None, or no such key), and the n-th cache-file object.
NoValue == [kind |-> "None"]
CacheFileObj(n) == [kind |-> "ImageCacheFile", id |-> n]

\* At most this many cache-file objects are built.
MaxObjects == 4

InitDesc ==
    /\ idict = [i \in Instances |-> NoValue]
    /\ nextObj = 1
    /\ builds = [i \in Instances |-> 0]
    /\ lastRead = [i \in Instances |-> NoValue]
    /\ prevRead = [i \in Instances |-> NoValue]
    /\ assigned = [i \in Instances |-> NoValue]
    /\ readAfter = [i \in Instances |-> NoValue]

\* ImageSpecFileDescriptor defines __set__ (lines 23-24): to Python it is a
\* data descriptor.
DefinesSet == TRUE

\* Python's attribute lookup for instance.attname, the class holding a
\* descriptor under attname: a data descriptor is called whatever the
\* instance's __dict__ holds; any other descriptor only when the __dict__ has
\* no such key.
CallsGet(i) == DefinesSet \/ idict[i] = NoValue

\* What a read records for the claims: the value it returned.
Returned(i, v) ==
    /\ prevRead' = [prevRead EXCEPT ![i] = IF assigned[i] = NoValue THEN lastRead[i] ELSE NoValue]
    /\ lastRead' = [lastRead EXCEPT ![i] = v]
    /\ readAfter' = [readAfter EXCEPT ![i] = assigned[i]]
    /\ assigned' = [assigned EXCEPT ![i] = NoValue]

\* __get__ (lines 10-21): the source is read, a specification and a cache
\* file are built; the file is kept in the instance's __dict__ when it is
\* truthy, and returned either way.
DescriptorGet(i) ==
    /\ nextObj <= MaxObjects
    /\ \E truthy \in BOOLEAN :
          idict' = [idict EXCEPT ![i] = IF truthy THEN CacheFileObj(nextObj) ELSE @]
    /\ nextObj' = nextObj + 1
    /\ builds' = [builds EXCEPT ![i] = @ + 1]
    /\ Returned(i, CacheFileObj(nextObj))

\* A read that Python answers from the instance's __dict__.
DictRead(i) ==
    /\ Returned(i, idict[i])
    /\ UNCHANGED <<idict, nextObj, builds>>

\* instance.attname is read.
ReadAttr(i) ==
    /\ IF CallsGet(i) THEN DescriptorGet(i) ELSE DictRead(i)
    /\ UNCHANGED notDesc

\* __set__ (lines 23-24): instance.attname = value
DescriptorSet(i) ==
    /\ \E v \in Injected :
          /\ idict' = [idict EXCEPT ![i] = v]
          /\ assigned' = [assigned EXCEPT ![i] = v]
    /\ builds' = [builds EXCEPT ![i] = 0]
    /\ lastRead' = [lastRead EXCEPT ![i] = NoValue]
    /\ prevRead' = [prevRead EXCEPT ![i] = NoValue]
    /\ readAfter' = [readAfter EXCEPT ![i] = NoValue]
    /\ UNCHANGED <<nextObj, notDesc>>

(***************************************************************************)
(* The template helper (template.py).                                      *)
(***************************************************************************)
Generators == {"g1", "g2"}

\* The cache file of a generator: its dimensions and its URL.
FileOf(g) ==
    IF g = "g1" THEN [width |-> "100", height |-> "80", url |-> "/static/g1.jpg"]
                ELSE [width |-> "50", height |-> "40", url |-> "/static/g2.jpg"]

\* At most this many generateimage calls are made.
MaxCalls == 3

\* What a caller passes as html_attrs: nothing, or a dict of its own.
EmptyAttrs == [width |-> None, height |-> None, src |-> None]

HtmlAttrs ==
    [ empty  |-> EmptyAttrs,
      width  |-> [EmptyAttrs EXCEPT !.width = "10%"],
      height |-> [EmptyAttrs EXCEPT !.height = "10%"],
      both   |-> [EmptyAttrs EXCEPT !.width = "10%", !.height = "10%"] ]

\* The dict object 0 is the default of the html_attrs parameter, built once
\* when generateimage is defined (line 33).
DefaultDict == 0

InitTpl ==
    /\ attrDict = [d \in {DefaultDict} |-> EmptyAttrs]
    /\ renderObj = <<>>
    /\ tags = <<>>

\* generateimage(generator_id, html_attrs={}, **kwargs), with html_attrs left
\* out: the GenerateImage object holds the default dict itself.
GenerateImageDefault(g) ==
    /\ Len(renderObj) < MaxCalls
    /\ renderObj' = Append(renderObj, [gen |-> g, attrs |-> DefaultDict, supplied |-> "omitted"])
    /\ tags' = Append(tags, EmptyAttrs)
    /\ UNCHANGED <<attrDict, notTpl>>

\* generateimage with a dict of the caller's.
GenerateImageWith(g) ==
    /\ Len(renderObj) < MaxCalls
    /\ \E a \in DOMAIN HtmlAttrs :
          LET d == Len(renderObj) + 1
          IN  /\ attrDict' = [x \in DOMAIN attrDict \cup {d} |->
                                 IF x = d THEN HtmlAttrs[a] ELSE attrDict[x]]
              /\ renderObj' = Append(renderObj, [gen |-> g, attrs |-> d, supplied |-> a])
    /\ tags' = Append(tags, EmptyAttrs)
    /\ UNCHANGED notTpl

\* GenerateImage.__str__ (lines 19-30): the attributes after the update are
\* those of the tag.
StrAttrs(k) ==
    LET d == renderObj[k].attrs
        file == FileOf(renderObj[k].gen)
        attrs == attrDict[d]
        sized == IF attrs.width = None /\ attrs.height = None
                 THEN [attrs EXCEPT !.width = file.width, !.height = file.height]
                 ELSE attrs
    IN  [sized EXCEPT !.src = file.url]

Render(k) ==
    /\ k \in 1..Len(renderObj)
    /\ attrDict' = [attrDict EXCEPT ![renderObj[k].attrs] = StrAttrs(k)]
    /\ tags' = [tags EXCEPT ![k] = StrAttrs(k)]
    /\ UNCHANGED <<renderObj, notTpl>>

(***************************************************************************)
(* The signal channels (signals.py): blinker signals of one namespace.     *)
(***************************************************************************)
\* content_required, existence_required, source_saved (signals.py) and the
\* post-construction signal that models/fields/__init__.py imports from it.
Channels == {"content_required", "existence_required", "source_saved", "post_init"}

Callbacks == {"cb1", "cb2"}

\* At most this many sends are made.
MaxSends == 3

InitSig ==
    /\ receivers = [ch \in Channels |-> {}]
    /\ calls = [ch \in Channels |-> [cb \in Callbacks |-> 0]]
    /\ due = [ch \in Channels |-> [cb \in Callbacks |-> 0]]
    /\ sends = 0

\* signal.connect(callback): a callback is connected to a channel once,
\* however often it is connected.
Connect(ch, cb) ==
    /\ receivers' = [receivers EXCEPT ![ch] = @ \cup {cb}]
    /\ UNCHANGED <<calls, due, sends, notSig>>

\* The callbacks a send on channel ch invokes with (ch, sender): those
\* connected to ch.
ReceiversFor(ch) == receivers[ch]

\* A variant of the delivery that invokes a callback with every send,
\* whatever the channel it is connected to.
DeliveredToAll(ch, cb) == IF \E c2 \in Channels : cb \in receivers[c2] THEN 1 ELSE 0

\* How many times a send on channel ch invokes callback cb.
Delivered(ch, cb) == IF cb \in ReceiversFor(ch) THEN 1 ELSE 0

\* signal.send(sender): synchronous, every connected callback is invoked.
Send(ch) ==
    /\ sends < MaxSends
    /\ sends' = sends + 1
    /\ calls' = [calls EXCEPT ![ch] = [cb \in Callbacks |-> @[cb] + Delivered(ch, cb)]]
    /\ due' = [due EXCEPT ![ch] = [cb \in Callbacks |->
                                      IF cb \in receivers[ch] THEN @[cb] + 1 ELSE @[cb]]]
    /\ UNCHANGED <<receivers, notSig>>

(***************************************************************************)
(* The generator registry (registry.py) and the spec host that registers   *)
(* itself (models/fields/__init__.py, SpecHostField._set_spec_id).         *)
(***************************************************************************)
\* An identifier is a pair <<left, right>>, written "left:right".
ClassNames == {"Photo", "photo"}
AttrNames == {"thumb"}

\* str.lower on the words of the model.
Lower(w) ==
    CASE w = "Photo" -> "photo"
      [] w = "Thumb" -> "thumb"
      [] w = "App" -> "app"
      [] OTHER -> w

\* ('%s:%s' % (cls.__name__, name)).lower()  (line 16)
DefaultSpecId(cls, name) == <<Lower(cls), Lower(name)>>

\* The identifiers given explicitly (id=...): they are used as given.
ExplicitIds == {<<"App", "Thumb">>, <<"photo", "thumb">>}

Ids == ExplicitIds \cup {DefaultSpecId(c, n) : c \in ClassNames, n \in AttrNames}

RegGenerators == {"G1", "G2"}

\* The spec hosts (fields): the id given at construction and the spec.
Hosts == {"h1", "h2"}
NoId == <<>>
HostExplicitId(h) == IF h = "h1" THEN NoId ELSE <<"App", "Thumb">>
HostSpec(h) == IF h = "h1" THEN "G1" ELSE "G2"

NoReg == [op |-> None, id |-> NoId, gen |-> None, before |-> None,
          wasFreed |-> FALSE, result |-> None]

InitReg ==
    /\ generators = [id \in Ids |-> None]
    /\ freed = [id \in Ids |-> FALSE]
    /\ rejected = [id \in Ids |-> FALSE]
    /\ hostId = [h \in Hosts |-> HostExplicitId(h)]
    /\ lastReg = NoReg

\* A variant of register.generator that rebinds an identifier silently.
register_rebinding(id, g) ==
    /\ generators' = [generators EXCEPT ![id] = g]
    /\ freed' = [freed EXCEPT ![id] = FALSE]
    /\ UNCHANGED rejected
    /\ lastReg' = [op |-> "register", id |-> id, gen |-> g, before |-> generators[id],
                   wasFreed |-> freed[id], result |-> "ok"]

\* register.generator(id, generator): AlreadyRegistered when the identifier
\* is bound; the binding is then left as it was.
register_generator(id, g) ==
    /\ IF generators[id] # None
       THEN /\ UNCHANGED <<generators, freed>>
            /\ rejected' = [rejected EXCEPT ![id] = TRUE]
       ELSE /\ generators' = [generators EXCEPT ![id] = g]
            /\ freed' = [freed EXCEPT ![id] = FALSE]
            /\ UNCHANGED rejected
    /\ lastReg' = [op |-> "register", id |-> id, gen |-> g, before |-> generators[id],
                   wasFreed |-> freed[id],
                   result |-> IF generators[id] # None THEN "AlreadyRegistered" ELSE "ok"]

Register(id, g) ==
    /\ register_generator(id, g)
    /\ UNCHANGED <<hostId, notReg>>

\* unregister.generator(id, generator): the binding is removed only if it is
\* the given generator's.
Unregister(id, g) ==
    /\ IF generators[id] = g
       THEN /\ generators' = [generators EXCEPT ![id] = None]
            /\ freed' = [freed EXCEPT ![id] = TRUE]
       ELSE UNCHANGED <<generators, freed>>
    /\ lastReg' = [op |-> "unregister", id |-> id, gen |-> g, before |-> generators[id],
                   wasFreed |-> freed[id],
                   result |-> IF generators[id] = g THEN "ok" ELSE "unchanged"]
    /\ UNCHANGED <<rejected, hostId, notReg>>

\* SpecHostField._set_spec_id(cls, name) (lines 10-20): the host's own
\* spec_id if it has one, else the default; SpecHost.set_spec_id keeps the
\* identifier and registers the host's spec under it.
SetSpecId(h, cls, name) ==
    LET spec_id == IF hostId[h] # NoId THEN hostId[h] ELSE DefaultSpecId(cls, name)
    IN  /\ hostId' = [hostId EXCEPT ![h] = spec_id]
        /\ register_generator(spec_id, HostSpec(h))
        /\ UNCHANGED notReg

(***************************************************************************)
(* The storage's naming (django_ported/storage.py).  A name is a sequence  *)
(* of characters; os.path is posixpath.                                    *)
(***************************************************************************)
Chars == {"a", ".", "/"}

\* The longest name given to the storage.
MaxNameLen == 3

Names == UNION {[1..n -> Chars] : n \in 1..MaxNameLen}

\* The characters get_random_string draws from, and the strings of 7 of
\* them it returns in the model.
AlnumChars == {"a", "x", "7"}
RandomStrings == {[i \in 1..7 |-> "x"], [i \in 1..7 |-> "7"]}

\* max_length=None
NoMaxLength == -1

\* The values of max_length: None, 0, and the lengths around those of the
\* names with a suffix.
MaxLengths == {NoMaxLength, 0} \cup (8..(8 + MaxNameLen))

SetMax(S) == CHOOSE x \in S : \A y \in S : y <= x

\* p.rfind(ch) + 1
LastIndexOf(p, ch) ==
    LET I == {i \in 1..Len(p) : p[i] = ch}
    IN  IF I = {} THEN 0 ELSE SetMax(I)

\* p[:n]
Prefix(p, n) == IF n <= 0 THEN <<>> ELSE SubSeq(p, 1, IF n < Len(p) THEN n ELSE Len(p))

\* p[n:]
Suffix(p, n) == IF n >= Len(p) THEN <<>> ELSE SubSeq(p, n + 1, Len(p))

\* head.rstrip('/')
RStripSlash(head) ==
    LET J == {j \in 1..Len(head) : head[j] # "/"}
    IN  IF J = {} THEN <<>> ELSE Prefix(head, SetMax(J))

\* os.path.split
Split(p) ==
    LET i == LastIndexOf(p, "/")
        head == Prefix(p, i)
    IN  [head |-> IF head # <<>> /\ (\E j \in 1..Len(head) : head[j] # "/")
                  THEN RStripSlash(head) ELSE head,
         tail |-> Suffix(p, i)]

\* os.path.splitext: the extension starts at the last dot of the last
\* component, leading dots not counted.
SplitExt(p) ==
    LET sepIndex == LastIndexOf(p, "/")
        dotIndex == LastIndexOf(p, ".")
    IN  IF dotIndex > sepIndex /\ (\E k \in (sepIndex + 1)..(dotIndex - 1) : p[k] # ".")
        THEN [root |-> Prefix(p, dotIndex - 1), ext |-> Suffix(p, dotIndex - 1)]
        ELSE [root |-> p, ext |-> <<>>]

\* os.path.join(a, b)
Join(a, b) ==
    IF b # <<>> /\ b[1] = "/" THEN b
    ELSE IF a = <<>> \/ a[Len(a)] = "/" THEN a \o b
    ELSE a \o <<"/">> \o b

\* A variant of the new name that leaves the extension out.
NewNameNoExt(dir, root, rand, ext) == Join(dir, root \o <<"_">> \o rand)

\* os.path.join(dir_name, "%s_%s%s" % (file_root, get_random_string(7), file_ext))
NewName(dir, root, rand, ext) == Join(dir, root \o <<"_">> \o rand \o ext)

\* A variant of the truncation that cuts one character less.
TruncatedShort(root, truncation) == Prefix(root, Len(root) - truncation + 1)

\* file_root[:-truncation], truncation > 0
Truncated(root, truncation) == Prefix(root, Len(root) - truncation)

\* Python's truth value of max_length (None and 0 are false).
Truthy(ml) == ml # NoMaxLength /\ ml # 0

NoHolds == [n \in {} |-> FALSE]

InitName ==
    /\ holds = NoHolds
    /\ gaPc = "idle"
    /\ gaArg = <<>>
    /\ gaName = <<>>
    /\ max_length = NoMaxLength
    /\ dir_name = <<>>
    /\ file_root = <<>>
    /\ file_ext = <<>>

\* storage.exists(n) answers b: what the storage holds is learnt when it is
\* first asked about a name, and the answer is the same from then on.
Exists(n, b) ==
    IF n \in DOMAIN holds
    THEN b = holds[n] /\ UNCHANGED holds
    ELSE holds' = [x \in DOMAIN holds \cup {n} |-> IF x = n THEN b ELSE holds[x]]

\* get_available_name(name, max_length): lines 69-70
GetAvailableName(n, ml) ==
    /\ gaPc = "idle"
    /\ gaArg' = n
    /\ gaName' = n
    /\ max_length' = ml
    /\ dir_name' = Split(n).head
    /\ file_root' = SplitExt(Split(n).tail).root
    /\ file_ext' = SplitExt(Split(n).tail).ext
    /\ gaPc' = "while"
    /\ UNCHANGED <<holds, notName>>

\* The loop's condition (line 76); the name is returned when it is false
\* (line 93).
WhileTest ==
    /\ gaPc = "while"
    /\ \E b \in BOOLEAN :
          /\ Exists(gaName, b)
          /\ gaPc' = IF b \/ (Truthy(max_length) /\ Len(gaName) > max_length)
                     THEN "body" ELSE "done"
    /\ UNCHANGED <<gaArg, gaName, max_length, dir_name, file_root, file_ext, notName>>

\* The loop's body (lines 78-92).
LoopBody ==
    /\ gaPc = "body"
    /\ \E r1 \in RandomStrings, r2 \in RandomStrings :
          LET n1 == NewName(dir_name, file_root, r1, file_ext)
              truncation == Len(n1) - max_length
              root2 == Truncated(file_root, truncation)
          IN  IF max_length = NoMaxLength \/ truncation <= 0
              THEN /\ gaName' = n1
                   /\ gaPc' = "while"
                   /\ UNCHANGED file_root
              ELSE IF root2 = <<>>
              THEN /\ gaName' = n1
                   /\ file_root' = root2
                   /\ gaPc' = "SuspiciousFileOperation"
              ELSE /\ gaName' = NewName(dir_name, root2, r2, file_ext)
                   /\ file_root' = root2
                   /\ gaPc' = "while"
    /\ UNCHANGED <<holds, gaArg, max_length, dir_name, file_ext, notName>>

(***************************************************************************)
(* The state after import, and the specifications.                         *)
(***************************************************************************)
(***************************************************************************)
(* FileSystemStorage.save by two writers at once (storage.py, Storage.save *)
(* and FileSystemStorage._save).  A name is the requested name followed by *)
(* the suffixes get_available_name appended to its root.                   *)
(***************************************************************************)
Writers == {1, 2}
Requested == <<"t">>
FsRandom == {"a", "b"}
FsNames == {Requested} \cup {Requested \o <<r>> : r \in FsRandom}
ChunkCount == 2
Kinds == {"stream", "tempfile"}
NoFile == [owner |-> 0, chunks |-> 0]
NoName == <<>>

InitFs ==
    /\ fsFiles = [n \in FsNames |-> NoFile]
    /\ fsDir = FALSE
    /\ svPc = [w \in Writers |-> "idle"]
    /\ svKind = [w \in Writers |-> "stream"]
    /\ svName = [w \in Writers |-> NoName]
    /\ svFirst = [w \in Writers |-> NoName]
    /\ svSawDir = [w \in Writers |-> FALSE]
    /\ svRet = [w \in Writers |-> NoName]

\* FileSystemStorage.exists: os.path.exists(self.path(name))
FsExists(n) == fsFiles[n] # NoFile

\* The names get_available_name(n) can return: n while it is free, else the
\* root of n with a random suffix that is free.
FsAvailable(n) ==
    IF ~FsExists(n) THEN {n}
    ELSE {m \in FsNames : m = n \o <<m[Len(m)]>> /\ Len(m) = Len(n) + 1 /\ ~FsExists(m)}

\* storage.save(name, content) is called; the content either exposes
\* temporary_file_path or is streamed in chunks.
SaveCall(w, kind) ==
    /\ svPc[w] = "idle" /\ svRet[w] = NoName
    /\ svKind' = [svKind EXCEPT ![w] = kind]
    /\ svName' = [svName EXCEPT ![w] = Requested]
    /\ svPc' = [svPc EXCEPT ![w] = "resolve"]
    /\ UNCHANGED <<fsFiles, fsDir, svFirst, svSawDir, svRet, notFs>>

\* Storage.save, line 46: name = self.get_available_name(name, ...)
Resolve(w) ==
    /\ svPc[w] = "resolve"
    /\ \E n \in FsAvailable(svName[w]) :
          /\ svName' = [svName EXCEPT ![w] = n]
          /\ svFirst' = [svFirst EXCEPT ![w] = n]
    /\ svPc' = [svPc EXCEPT ![w] = "dir_check"]
    /\ UNCHANGED <<fsFiles, fsDir, svKind, svSawDir, svRet, notFs>>

\* _save, line 197: if not os.path.exists(directory)
DirCheck(w) ==
    /\ svPc[w] = "dir_check"
    /\ svSawDir' = [svSawDir EXCEPT ![w] = fsDir]
    /\ svPc' = [svPc EXCEPT ![w] = IF fsDir THEN "try" ELSE "makedirs"]
    /\ UNCHANGED <<fsFiles, fsDir, svKind, svName, svFirst, svRet, notFs>>

\* _save, lines 198-213: os.makedirs; EEXIST (another writer made the
\* directory meanwhile) is ignored, and the directory is a directory.
MakeDirs(w) ==
    /\ svPc[w] = "makedirs"
    /\ fsDir' = TRUE
    /\ svPc' = [svPc EXCEPT ![w] = "try"]
    /\ UNCHANGED <<fsFiles, svKind, svName, svFirst, svSawDir, svRet, notFs>>

\* _save, lines 224-225: shutil.move(content.temporary_file_path(),
\* full_path); the move renames the temporary file onto the path, whatever
\* the path held.
Move(w) ==
    /\ svPc[w] = "try" /\ svKind[w] = "tempfile"
    /\ fsFiles' = [fsFiles EXCEPT ![svName[w]] = [owner |-> w, chunks |-> ChunkCount]]
    /\ svPc' = [svPc EXCEPT ![w] = "saved"]
    /\ UNCHANGED <<fsDir, svKind, svName, svFirst, svSawDir, svRet, notFs>>

\* _save, lines 231-234 and 249-253: os.open with O_CREAT | O_EXCL creates
\* the file or fails by EEXIST, and then a new name is taken and the loop
\* runs again.
Open(w) ==
    /\ svPc[w] = "try" /\ svKind[w] = "stream"
    /\ IF FsExists(svName[w])
       THEN /\ \E n \in FsAvailable(svName[w]) : svName' = [svName EXCEPT ![w] = n]
            /\ UNCHANGED <<fsFiles, svPc>>
       ELSE /\ fsFiles' = [fsFiles EXCEPT ![svName[w]] = [owner |-> w, chunks |-> 0]]
            /\ svPc' = [svPc EXCEPT ![w] = "write"]
            /\ UNCHANGED svName
    /\ UNCHANGED <<fsDir, svKind, svFirst, svSawDir, svRet, notFs>>

\* _save, lines 238-242: one chunk is written through the descriptor; it
\* reaches the file the name refers to while that is still the file opened.
WriteChunk(w) ==
    /\ svPc[w] = "write"
    /\ IF fsFiles[svName[w]].owner = w
       THEN IF fsFiles[svName[w]].chunks < ChunkCount
            THEN /\ fsFiles' = [fsFiles EXCEPT ![svName[w]].chunks = @ + 1]
                 /\ UNCHANGED svPc
            ELSE /\ svPc' = [svPc EXCEPT ![w] = "saved"]
                 /\ UNCHANGED fsFiles
       ELSE /\ svPc' = [svPc EXCEPT ![w] = "saved"]
            /\ UNCHANGED fsFiles
    /\ UNCHANGED <<fsDir, svKind, svName, svFirst, svSawDir, svRet, notFs>>

\* _save, lines 258-263, and Storage.save, line 53: the name is returned
SaveReturn(w) ==
    /\ svPc[w] = "saved"
    /\ svRet' = [svRet EXCEPT ![w] = svName[w]]
    /\ svPc' = [svPc EXCEPT ![w] = "idle"]
    /\ UNCHANGED <<fsFiles, fsDir, svKind, svName, svFirst, svSawDir, notFs>>

(***************************************************************************)
(* The settings object (conf.py).  The keys of **kwargs are strings; the   *)
(* values matter only by identity.                                         *)
(***************************************************************************)
KnownSettings == {"MEDIA_ROOT", "BASE_PREFIX", "S3_KEY"}
UnknownNames == {"NO_SUCH_SETTING"}
ConfKeys == KnownSettings \cup UnknownNames
ConfValues == {"v1", "v2"}
ClassDefault == "default"
EmptyKw == [k \in {} |-> ClassDefault]

\* Every mapping set_configs can be given.
Kwargs == UNION {[ks -> ConfValues] : ks \in SUBSET ConfKeys}

InitConf ==
    /\ confAttrs = [k \in KnownSettings |-> ClassDefault]
    /\ confKw = EmptyKw
    /\ confRaised = FALSE

\* A variant of the test that finds every name.
HasAttrAlways(attrs, key) == TRUE

\* hasattr(self, key)
HasAttr(attrs, key) == key \in DOMAIN attrs

\* setattr(self, key, value)
SetAttr(attrs, key, value) ==
    [k \in DOMAIN attrs \cup {key} |-> IF k = key THEN value ELSE attrs[k]]

\* kwargs without key (what kwargs.pop(key) leaves)
Pop(kw, key) == [k \in DOMAIN kw \ {key} |-> kw[k]]

\* set_configs: the loop over kwargs.keys(), a list made before the loop;
\* kwargs.pop(key) raises KeyError for a key that is not in kwargs.
RECURSIVE SetConfigsLoop(_, _, _)
SetConfigsLoop(attrs, kw, keys) ==
    IF keys = {} THEN [attrs |-> attrs, raised |-> FALSE]
    ELSE LET key == CHOOSE k \in keys : TRUE
         IN  IF HasAttr(attrs, key)
             THEN IF key \in DOMAIN kw
                  THEN SetConfigsLoop(SetAttr(attrs, key, kw[key]), Pop(kw, key), keys \ {key})
                  ELSE [attrs |-> attrs, raised |-> TRUE]
             ELSE SetConfigsLoop(attrs, kw, keys \ {key})

set_configs(attrs, kw) == SetConfigsLoop(attrs, kw, DOMAIN kw)

\* conf.set_configs(**kw)
SetConfigs(kw) ==
    /\ confAttrs' = set_configs(confAttrs, kw).attrs
    /\ confRaised' = set_configs(confAttrs, kw).raised
    /\ confKw' = kw
    /\ UNCHANGED notConf

(***************************************************************************)
(* initialize_imagekit(admin, **kwargs) (__init__.py).  A view, known by   *)
(* its place in the registration order, has a model or none; a model has   *)
(* attributes, some private, some image-spec fields, some that raise when  *)
(* read.                                                                   *)
(***************************************************************************)
App == "app"
ViewCount == 4
MaxBoots == 2
Views == 1..ViewCount
NoModel == "no model"
\* The views of the registry: views 1 and 4 share a record class, view 3
\* has none.
ViewModel == [v \in Views |-> CASE v = 1 -> "Model1" [] v = 2 -> "Model2" [] v = 4 -> "Model1" [] OTHER -> NoModel]
Models == {"Model1", "Model2"}
\* dir(view.model), in its sorted order.  An attribute is private (leading
\* underscore) or not, is an ImageSpecField or not, raises when read or
\* not, and a field has a source or has none.
ModelAttrs ==
    [m \in Models |->
        IF m = "Model1"
        THEN <<[name |-> "_hidden", private |-> TRUE, field |-> TRUE, raises |-> FALSE, source |-> TRUE],
               [name |-> "nosource", private |-> FALSE, field |-> TRUE, raises |-> FALSE, source |-> FALSE],
               [name |-> "thumb", private |-> FALSE, field |-> TRUE, raises |-> FALSE, source |-> TRUE],
               [name |-> "title", private |-> FALSE, field |-> FALSE, raises |-> FALSE, source |-> FALSE]>>
        ELSE <<[name |-> "avatar", private |-> FALSE, field |-> TRUE, raises |-> FALSE, source |-> TRUE],
               [name |-> "broken", private |-> FALSE, field |-> TRUE, raises |-> TRUE, source |-> TRUE],
               [name |-> "cover", private |-> FALSE, field |-> TRUE, raises |-> FALSE, source |-> TRUE]>>]
\* The (record class, attribute) pairs.
FieldPairs == UNION {{<<m, ModelAttrs[m][i].name>> : i \in DOMAIN ModelAttrs[m]} : m \in Models}
\* The arguments of a construction: none, keywords only, one positional.
CtorArgs == {"no arguments", "keywords", "one positional"}
NotBuilt == [model |-> NoModel, args |-> "no arguments", wrapped |-> FALSE, ran |-> FALSE, sent |-> 0, raised |-> None]
BootKwargs == {EmptyKw, [k \in {"MEDIA_ROOT"} |-> "v1"], [k \in {"S3_KEY", "NO_SUCH_SETTING"} |-> "v2"]}

\* The lists admin._views can be: the views in registration order, any of
\* them left out.
RECURSIVE ViewList(_)
ViewList(vs) ==
    IF vs = {} THEN <<>>
    ELSE LET v == CHOOSE x \in vs : \A y \in vs : x <= y
         IN  <<v>> \o ViewList(vs \ {v})

InitBoot ==
    /\ bootPc = "idle"
    /\ bootLog = <<>>
    /\ bootViews = <<>>
    /\ currentApp = None
    /\ templateGlobals = {}
    /\ contributed = {}
    /\ bootGiven = <<>>
    /\ bootRuns = 0
    /\ contribCalls = [p \in FieldPairs |-> 0]
    /\ contribDone = [p \in FieldPairs |-> 0]
    /\ built = NotBuilt

\* initialize_imagekit, line 3: conf.set_configs(**kwargs)
BootSetConfigs(vs, kw) ==
    /\ bootPc = "idle"
    /\ bootRuns < MaxBoots
    /\ bootRuns' = bootRuns + 1
    /\ bootGiven' = ViewList(vs)
    /\ confAttrs' = set_configs(confAttrs, kw).attrs
    /\ confRaised' = set_configs(confAttrs, kw).raised
    /\ confKw' = kw
    /\ bootViews' = ViewList(vs)
    /\ bootLog' = <<"set_configs">>
    /\ bootPc' = "set_flask_app"
    /\ UNCHANGED <<currentApp, templateGlobals, contributed, contribCalls, contribDone, built, notConfBoot>>

\* initialize_imagekit, line 4: set_flask_app(admin.app)
BootSetFlaskApp ==
    /\ bootPc = "set_flask_app"
    /\ currentApp' = App
    /\ bootLog' = Append(bootLog, "set_flask_app")
    /\ bootPc' = "scan"
    /\ UNCHANGED <<bootViews, templateGlobals, contributed, bootGiven, bootRuns, contribCalls, contribDone, built, confVars, notConfBoot>>

\* The scan of model m if the first exception ended it: only the
\* attributes before the first one that raises are contributed.
ContributesUntilRaise(m) ==
    {<<m, ModelAttrs[m][i].name>> :
        i \in {j \in DOMAIN ModelAttrs[m] :
                 \A k \in 1..j :
                    LET x == ModelAttrs[m][k]
                    IN  IF k = j THEN ~x.private /\ x.field /\ ~x.raises /\ x.source
                        ELSE x.private \/ (~x.raises /\ (x.field => x.source))}}

\* The attributes of model m that the scan contributes: not private, read
\* without an exception, an ImageSpecField, and one with a source
\* (contribute_to_class raises for the others); each in its own try.
Contributes(m) ==
    {<<m, ModelAttrs[m][i].name>> :
        i \in {j \in DOMAIN ModelAttrs[m] :
                 LET x == ModelAttrs[m][j]
                 IN  ~x.private /\ x.field /\ ~x.raises /\ x.source}}

\* initialize_imagekit, lines 10-24: one turn of `for view in views`.  The
\* class attribute of a contributed field still reads as the field
\* (descriptor __get__ with instance None), so the field is contributed
\* again.  set_spec_id then registers the field's spec under an identifier
\* that is already bound to it: it either accepts that (accepts) or raises
\* AlreadyRegistered, which ends this contribution after the descriptor
\* was installed.
BootScanView(accepts) ==
    /\ bootPc = "scan"
    /\ bootViews # <<>>
    /\ LET m == ViewModel[Head(bootViews)]
           C == IF m = NoModel THEN {} ELSE Contributes(m)
       IN  /\ contributed' = contributed \cup C
           /\ contribCalls' = [p \in FieldPairs |-> IF p \in C THEN contribCalls[p] + 1 ELSE contribCalls[p]]
           /\ contribDone' = [p \in FieldPairs |->
                                IF p \in C /\ (contribDone[p] = 0 \/ accepts)
                                THEN contribDone[p] + 1 ELSE contribDone[p]]
    /\ bootViews' = Tail(bootViews)
    /\ bootLog' = IF bootLog[Len(bootLog)] = "scan" THEN bootLog ELSE Append(bootLog, "scan")
    /\ UNCHANGED <<bootPc, currentApp, templateGlobals, bootGiven, bootRuns, built, confVars, notConfBoot>>

\* initialize_imagekit returns when the loop is over
BootReturn ==
    /\ bootPc = "scan"
    /\ bootViews = <<>>
    /\ bootPc' = "returned"
    /\ UNCHANGED <<bootLog, bootViews, currentApp, templateGlobals, contributed, bootGiven, bootRuns, contribCalls, contribDone, built, confVars, notConfBoot>>

\* The host calls the bootstrap again (another admin, other overrides).
BootAgain ==
    /\ bootPc = "returned"
    /\ bootPc' = "idle"
    /\ bootLog' = <<>>
    /\ built' = NotBuilt
    /\ UNCHANGED <<bootViews, currentApp, templateGlobals, contributed, bootGiven, bootRuns, contribCalls, contribDone, confVars, notConfBoot>>

\* model_init_decorator(func) (lines 62-67): `@wraps` is applied to
\* model_init itself, so what is returned and stored as cls.__init__ is
\* partial(update_wrapper, wrapped=model_init).  A construction calls it
\* with the constructor's arguments and without the instance: the body of
\* model_init (func, then post_init.send) is never run, and the call ends
\* in an exception.
model_init(args) ==
    [ran |-> FALSE, sent |-> 0,
     raised |-> IF args = "one positional" THEN {"TypeError", "AttributeError"} ELSE {"TypeError"}]

\* cls(...): the construction of a record of model m, by the application
\* the bootstrap has set up
Construct(m, args) ==
    /\ bootPc = "returned"
    /\ LET wrapped == \E p \in FieldPairs : p[1] = m /\ contribDone[p] > 0
       IN  IF wrapped
           THEN \E e \in model_init(args).raised :
                   built' = [model |-> m, args |-> args, wrapped |-> TRUE,
                             ran |-> model_init(args).ran, sent |-> model_init(args).sent,
                             raised |-> e]
           ELSE built' = [model |-> m, args |-> args, wrapped |-> FALSE,
                          ran |-> TRUE, sent |-> 0, raised |-> None]
    /\ UNCHANGED <<bootPc, bootLog, bootViews, currentApp, templateGlobals, contributed, bootGiven, bootRuns, contribCalls, contribDone, confVars, notConfBoot>>

(***************************************************************************)
(* ImageSpec.generate (specs/__init__.py).  A source is None, a file       *)
(* object without a file (false in a test), an open image file, or an      *)
(* image file that is closed, on which open_image raises ValueError until  *)
(* it is opened again.                                                     *)
(***************************************************************************)
NoSource == "None"
EmptyFile == "empty file"
OpenFile == "open file"
ClosedFile == "closed file"
Sources == {NoSource, EmptyFile, OpenFile, ClosedFile}
NoFieldData == "no _field_data"
Formats == {"None", "JPEG", "PNG"}
MissingSource == "MissingSource"
NoResult == "no result"

\* The truth value of a source (`if not src`).
SourceTruthy(src) == src \in {OpenFile, ClosedFile}

InitGen ==
    /\ spSource = NoSource
    /\ spFieldData = NoFieldData
    /\ spFormat = "None"
    /\ spPc = "idle"
    /\ spOpened = 0
    /\ spProcessed = FALSE
    /\ spResult = NoResult

\* The property ImageSpec.source: the value it returns, and _source and
\* _field_data after it.
source ==
    IF ~SourceTruthy(spSource) /\ spFieldData # NoFieldData
    THEN [value |-> spFieldData, _source |-> spFieldData, _field_data |-> NoFieldData]
    ELSE [value |-> spSource, _source |-> spSource, _field_data |-> spFieldData]

\* ImageSpec(source), or spec.source = value
SetSource(v) ==
    /\ spPc = "idle"
    /\ spSource' = v
    /\ UNCHANGED <<spFieldData, spFormat, spPc, spOpened, spProcessed, spResult, notGen>>

\* A pickled spec is restored: its state has _field_data in place of
\* _source (what __getstate__ stores for a file of a record).
SetState(v) ==
    /\ spPc = "idle"
    /\ spSource' = NoSource
    /\ spFieldData' = v
    /\ UNCHANGED <<spFormat, spPc, spOpened, spProcessed, spResult, notGen>>

\* spec.generate() is called
GenerateCall(fmt) ==
    /\ spPc = "idle"
    /\ spPc' = "check"
    /\ spFormat' = fmt
    /\ spOpened' = 0
    /\ spProcessed' = FALSE
    /\ spResult' = NoResult
    /\ UNCHANGED <<spSource, spFieldData, notGen>>

\* A variant of generate without the test of the source.
GenSkipCheck ==
    /\ spPc = "check"
    /\ spSource' = source._source
    /\ spFieldData' = source._field_data
    /\ spPc' = "open"
    /\ UNCHANGED <<spFormat, spOpened, spProcessed, spResult, notGen>>

\* generate, lines 138-140: if not self.source: raise MissingSource(...)
GenCheckSource ==
    /\ spPc = "check"
    /\ spSource' = source._source
    /\ spFieldData' = source._field_data
    /\ IF ~SourceTruthy(source.value)
       THEN /\ spResult' = MissingSource
            /\ spPc' = "idle"
       ELSE /\ spPc' = "open"
            /\ UNCHANGED spResult
    /\ UNCHANGED <<spFormat, spOpened, spProcessed, notGen>>

\* generate, lines 144-146: img = open_image(self.source), which raises
\* ValueError on a closed file
GenOpenImage ==
    /\ spPc = "open"
    /\ spOpened' = spOpened + 1
    /\ spPc' = IF spSource = ClosedFile THEN "reopen" ELSE "process"
    /\ UNCHANGED <<spSource, spFieldData, spFormat, spProcessed, spResult, notGen>>

\* generate, lines 149-150: self.source.open(); img = open_image(self.source)
GenReopen ==
    /\ spPc = "reopen"
    /\ spSource' = OpenFile
    /\ spOpened' = spOpened + 1
    /\ spPc' = "process"
    /\ UNCHANGED <<spFieldData, spFormat, spProcessed, spResult, notGen>>

\* generate, lines 152-154: return process_image(img, ...)
GenProcess ==
    /\ spPc = "process"
    /\ spProcessed' = TRUE
    /\ spResult' = "image as " \o spFormat
    /\ spPc' = "idle"
    /\ UNCHANGED <<spSource, spFieldData, spFormat, spOpened, notGen>>

(***************************************************************************)
(* get_image (model_helpers/__init__.py).  A string is a sequence of the   *)
(* pieces "http", "/" and "a" (any other text).  A field value has or has  *)
(* not a to_imagekit method (known by the string it returns), has or has   *)
(* not seek and read, and is or is not a string.                           *)
(***************************************************************************)
ImgStrings == {<<"http", "a">>, <<"a">>, <<"/", "a">>}
NoCap == <<"no to_imagekit">>
NotString == <<"not a string">>
MediaRoots == {<<"/", "a", "/">>, <<"http", "/">>}
BasePrefixes == {<<>>, <<"a">>}
Fields == [to_imagekit : ImgStrings \cup {NoCap}, stream : BOOLEAN, str : ImgStrings \cup {NotString}]
NoField == [to_imagekit |-> NoCap, stream |-> FALSE, str |-> NotString]

\* string.startswith('http')
StartsWithHttp(string) == string # <<>> /\ string[1] = "http"

\* get_http_asset(path): the body of a 200 response, else an exception
get_http_asset(path, ok) ==
    IF ok THEN [kind |-> "fetched", path |-> path] ELSE [kind |-> "Http response error", path |-> path]

\* handle_string (lines 25-39); open raises IOError for a path it cannot open
handle_string(string, root, prefix, ok) ==
    IF StartsWithHttp(string) THEN get_http_asset(string, ok)
    ELSE LET file_path == Join(Join(root, prefix), string)
         IN  IF StartsWithHttp(file_path) THEN get_http_asset(file_path, ok)
             ELSE IF ok THEN [kind |-> "opened", path |-> file_path]
             ELSE [kind |-> "IOError", path |-> file_path]

\* get_image(field) (lines 41-52)
get_image(field, root, prefix, ok) ==
    IF field.to_imagekit # NoCap THEN handle_string(field.to_imagekit, root, prefix, ok)
    ELSE IF field.stream THEN [kind |-> "field", path |-> <<>>]
    ELSE IF field.str # NotString THEN handle_string(field.str, root, prefix, ok)
    ELSE [kind |-> "Could not determine", path |-> <<>>]

InitImg ==
    /\ imgField = NoField
    /\ imgRoot = <<"/", "a", "/">>
    /\ imgPrefix = <<>>
    /\ imgResult = [kind |-> "not called", path |-> <<>>]

\* get_image(field) under some settings; the file or the URL is there or not
GetImage(field, root, prefix, ok) ==
    /\ imgField' = field
    /\ imgRoot' = root
    /\ imgPrefix' = prefix
    /\ imgResult' = get_image(field, root, prefix, ok)
    /\ UNCHANGED notImg

(***************************************************************************)
(* S3BotoStorageFile (storage.py): a file that streams its writes to S3 as *)
(* a multipart upload.  Bytes are 0 and 1; the part size, 5 MiB in the     *)
(* source, is scaled down.                                                 *)
(***************************************************************************)
WriteBufferSize == 2
MaxWriteLen == 2
MaxWritten == 5
Bytes == {0, 1}
WriteData == UNION {[1..n -> Bytes] : n \in 0..MaxWriteLen}
\* the mode strings, as sequences of characters
Modes == {<<"r", "b">>, <<"w", "b">>}

InitS3 ==
    /\ s3State = "none"
    /\ s3Mode = <<"r", "b">>
    /\ s3Dirty = FALSE
    /\ s3Multipart = None
    /\ s3Buffer = <<>>
    /\ s3Counter = 0
    /\ s3Parts = <<>>
    /\ s3Written = <<>>
    /\ s3Completes = 0
    /\ s3Raised = FALSE

\* S3BotoStorageFile.__init__: a new file object, nothing written
S3Open(mode) ==
    /\ s3State \in {"none", "closed"}
    /\ s3State' = "open"
    /\ s3Mode' = mode
    /\ s3Dirty' = FALSE
    /\ s3Multipart' = None
    /\ s3Buffer' = <<>>
    /\ s3Counter' = 0
    /\ s3Parts' = <<>>
    /\ s3Written' = <<>>
    /\ s3Completes' = 0
    /\ s3Raised' = FALSE
    /\ UNCHANGED notS3

\* A variant of the flush that uploads the buffer even when it is empty.
FlushAlways(buffer, counter, parts) ==
    [buffer |-> <<>>, counter |-> counter + 1,
     parts |-> Append(parts, [num |-> counter + 1, data |-> buffer])]

\* _flush_write_buffer: what it makes of the buffer, the counter and the
\* uploaded parts
_flush_write_buffer(buffer, counter, parts) ==
    IF Len(buffer) # 0
    THEN [buffer |-> <<>>, counter |-> counter + 1,
          parts |-> Append(parts, [num |-> counter + 1, data |-> buffer])]
    ELSE [buffer |-> buffer, counter |-> counter, parts |-> parts]

\* write(data): AttributeError unless opened for writing; the multipart
\* upload is started by the first write; a buffer that has reached the part
\* size is flushed before data is appended to it.
S3Write(data) ==
    /\ s3State = "open"
    /\ Len(s3Written) + Len(data) <= MaxWritten
    /\ IF "w" \notin {s3Mode[i] : i \in 1..Len(s3Mode)}
       THEN /\ s3Raised' = TRUE
            /\ UNCHANGED <<s3Dirty, s3Multipart, s3Buffer, s3Counter, s3Parts, s3Written>>
       ELSE LET flushed == IF WriteBufferSize <= Len(s3Buffer)
                           THEN _flush_write_buffer(s3Buffer, s3Counter, s3Parts)
                           ELSE [buffer |-> s3Buffer, counter |-> s3Counter, parts |-> s3Parts]
            IN  /\ s3Raised' = FALSE
                /\ s3Dirty' = TRUE
                /\ s3Multipart' = IF s3Multipart = None THEN "initiated" ELSE s3Multipart
                /\ s3Buffer' = flushed.buffer \o data
                /\ s3Counter' = flushed.counter
                /\ s3Parts' = flushed.parts
                /\ s3Written' = s3Written \o data
    /\ UNCHANGED <<s3State, s3Mode, s3Completes, notS3>>

\* A variant of close that completes the upload without the last flush.
S3CloseNoFlush ==
    /\ s3State = "open"
    /\ s3State' = "closed"
    /\ IF s3Dirty
       THEN /\ s3Multipart' = "completed"
            /\ s3Completes' = s3Completes + 1
       ELSE /\ s3Multipart' = IF s3Multipart # None THEN "cancelled" ELSE s3Multipart
            /\ UNCHANGED s3Completes
    /\ UNCHANGED <<s3Mode, s3Dirty, s3Buffer, s3Counter, s3Parts, s3Written, s3Raised, notS3>>

\* close: a dirty file flushes and completes its upload; a clean one
\* cancels the upload if there is one.
S3Close ==
    /\ s3State = "open"
    /\ s3State' = "closed"
    /\ IF s3Dirty
       THEN LET flushed == _flush_write_buffer(s3Buffer, s3Counter, s3Parts)
            IN  /\ s3Buffer' = flushed.buffer
                /\ s3Counter' = flushed.counter
                /\ s3Parts' = flushed.parts
                /\ s3Multipart' = "completed"
                /\ s3Completes' = s3Completes + 1
       ELSE /\ s3Multipart' = IF s3Multipart # None THEN "cancelled" ELSE s3Multipart
            /\ UNCHANGED <<s3Buffer, s3Counter, s3Parts, s3Completes>>
    /\ UNCHANGED <<s3Mode, s3Dirty, s3Written, s3Raised, notS3>>

(***************************************************************************)
(* get_singleton (utils.py).  A dotted path resolves to a class or to      *)
(* nothing; instances of one of the classes are false in a test (a class   *)
(* with __len__ or __nonzero__, such as a container).                      *)
(***************************************************************************)
MaxConstructions == 3
SingletonClasses == {"JustInTime", "Simple", "Registry"}
NoClass == "ImproperlyConfigured"
QNames == {"strategies.JustInTime", "cachefiles.JustInTime", "backends.Simple", "pkg.Registry", "nodot", "pkg.Missing"}

\* get_by_qname(path, desc): the object the path names, or
\* ImproperlyConfigured
get_by_qname(path) ==
    CASE path \in {"strategies.JustInTime", "cachefiles.JustInTime"} -> "JustInTime"
      [] path = "backends.Simple" -> "Simple"
      [] path = "pkg.Registry" -> "Registry"
      [] OTHER -> NoClass

\* _singletons.get(cls) when there is no entry: None
NoInstance == [cls |-> "None", n |-> 0]

\* The truth value of an instance (`if not instance`); None is false.
InstanceTruthy(instance) == instance # NoInstance /\ instance.cls # "Registry"

InitSingle ==
    /\ _singletons = [cls \in SingletonClasses |-> NoInstance]
    /\ constructed = [cls \in SingletonClasses |-> 0]
    /\ handed = [cls \in SingletonClasses |-> {}]
    /\ lastGet = [path |-> "nodot", result |-> NoInstance]

\* get_singleton(class_path, desc) (lines 45-51)
GetSingleton(class_path) ==
    LET cls == get_by_qname(class_path)
    IN  IF cls = NoClass
        THEN /\ lastGet' = [path |-> class_path, result |-> [cls |-> NoClass, n |-> 0]]
             /\ UNCHANGED <<_singletons, constructed, handed, notSingle>>
        ELSE LET found == _singletons[cls]
                 instance == IF ~InstanceTruthy(found)
                             THEN [cls |-> cls, n |-> constructed[cls] + 1]
                             ELSE found
             IN  /\ constructed[cls] < MaxConstructions
                 /\ _singletons' = [_singletons EXCEPT ![cls] = instance]
                 /\ constructed' = [constructed EXCEPT ![cls] = IF InstanceTruthy(found) THEN @ ELSE @ + 1]
                 /\ handed' = [handed EXCEPT ![cls] = @ \cup {instance}]
                 /\ lastGet' = [path |-> class_path, result |-> instance]
                 /\ UNCHANGED notSingle

(***************************************************************************)
(* sanitize_cache_key (utils.py) and get_key (backends.py).  The package   *)
(* is Python 2 code without unicode_literals, where the pattern of line 11 *)
(* is the byte string [\u0000-\u001f\s]+ with the backslashes in it, and   *)
(* the class it denotes is: the letter u, the characters from "0" to "u",  *)
(* and whitespace.  Characters are: a space, a control character, "a"      *)
(* (between "0" and "u"), "z" and "/" (outside).  The limit of 200 and the *)
(* 32 characters of the digest are scaled down.                            *)
(***************************************************************************)
KeyLimit == 4
DigestLen == 1
MaxKeyLen == 4
Ctl == "ctl"
KeyChars == {" ", Ctl, "a", "z"}
FileNames == UNION {[1..n -> KeyChars] : n \in 0..MaxKeyLen}
NoDigest == <<"no digest">>

\* bad_memcached_key_chars (line 11): the characters the pattern matches
BadChar(ch) == ch \in {" ", "a"}

\* bad_memcached_key_chars.sub('', key)
RECURSIVE Strip(_)
Strip(key) ==
    IF key = <<>> THEN <<>>
    ELSE IF BadChar(key[1]) THEN Strip(Tail(key))
    ELSE <<key[1]>> \o Strip(Tail(key))

\* sanitize_cache_key(key) (lines 64-75): the text of the key and, when it
\* was cut, the key the md5 digest after the colon is of
sanitize_cache_key(flag, key) ==
    IF flag
    THEN LET new_key == Strip(key)
         IN  IF Len(new_key) >= KeyLimit
             THEN [text |-> SubSeq(new_key, 1, KeyLimit - (DigestLen + 1)), digest |-> key]
             ELSE [text |-> new_key, digest |-> NoDigest]
    ELSE [text |-> key, digest |-> NoDigest]

\* The number of characters of a sanitized key
KeyLen(k) == Len(k.text) + (IF k.digest = NoDigest THEN 0 ELSE 1 + DigestLen)

\* Simple.get_key(file): '%s%s-state' % (prefix, file.name), sanitized; the
\* prefix is "z" and the suffix "-state" is "z"
get_key(flag, name) == sanitize_cache_key(flag, <<"z">> \o name \o <<"z">>)

InitSan ==
    /\ sanFlag = FALSE
    /\ sanName = <<>>
    /\ sanKey = get_key(FALSE, <<>>)

\* backend.get_key(file) under a setting of the flag
GetKey(flag, name) ==
    /\ sanFlag' = flag
    /\ sanName' = name
    /\ sanKey' = get_key(flag, name)
    /\ UNCHANGED notSan

(***************************************************************************)
(* One storage object, a FileSystemStorage or an S3Storage, used by one    *)
(* caller: exists and save (storage.py).  Names are sequences of           *)
(* characters; a content is known by the number of the save that wrote it. *)
(***************************************************************************)
MaxSaves == 3
StorageKinds == {"FileSystemStorage", "S3Storage"}
BasePrefixValues == {<<>>, <<"p">>}
SavedNames == {<<"a">>, <<"b">>}
NoSave == [name |-> <<>>, final |-> <<>>, content |-> 0]
NoExists == [name |-> <<>>, found |-> FALSE]

\* The keys a directory or a bucket holds
KeysOf(objects) == {o[1] : o \in objects}

\* key.startswith(prefix), for bucket.list(prefix=...)
HasPrefix(key, prefix) ==
    Len(key) >= Len(prefix) /\ SubSeq(key, 1, Len(prefix)) = prefix

\* S3Storage.get_name(name): os.path.join(self.prefix, name)
get_name(prefix, name) == Join(prefix, name)

\* The property S3Storage.entries (lines 363-371): _entries after it was
\* read; the bucket is listed only while _entries is empty
entries(prefix, objects, cached) ==
    IF cached = {} THEN {k \in KeysOf(objects) : HasPrefix(k, prefix)} ELSE cached

\* exists(name) of either class: the answer, the key that was looked for,
\* and _entries afterwards.  FileSystemStorage (lines 279-280) asks the
\* file system for path(name); S3Storage (lines 396-401) answers from
\* entries when that is not empty, and asks the bucket otherwise.
exists(kind, prefix, objects, cached, name) ==
    IF kind = "FileSystemStorage"
    THEN [found |-> name \in KeysOf(objects), key |-> name, entries |-> cached]
    ELSE LET key == get_name(prefix, name)
             e == entries(prefix, objects, cached)
         IN  [found |-> IF e # {} THEN key \in e ELSE key \in KeysOf(objects),
              key |-> key, entries |-> e]

\* Storage.get_available_name(name) (lines 64-93, max_length=None): the name
\* itself while exists(name) is false, else the name with "_" and a random
\* string; and _entries afterwards
get_available_name(kind, prefix, objects, cached, name, rand) ==
    LET first == exists(kind, prefix, objects, cached, name)
    IN  IF ~first.found THEN [name |-> name, entries |-> first.entries]
        ELSE [name |-> NewName(<<>>, name, rand, <<>>), entries |-> first.entries]

InitBk ==
    /\ bkKind = "FileSystemStorage"
    /\ bkPrefix = <<>>
    /\ bkObjects = {}
    /\ bkEntries = {}
    /\ bkSaved = NoSave
    /\ bkLast = NoExists
    /\ bkSaves = 0

\* FileSystemStorage(...) or S3Storage() (lines 325-343) on an empty
\* directory or bucket
NewStorage(kind, prefix) ==
    /\ bkKind' = kind
    /\ bkPrefix' = IF kind = "S3Storage" THEN prefix ELSE <<>>
    /\ bkObjects' = {}
    /\ bkEntries' = {}
    /\ bkSaved' = NoSave
    /\ bkLast' = NoExists
    /\ bkSaves' = 0
    /\ UNCHANGED notBk

\* storage.exists(name)
BkExists(name) ==
    LET r == exists(bkKind, bkPrefix, bkObjects, bkEntries, name)
    IN  /\ bkLast' = [name |-> name, found |-> r.found]
        /\ bkEntries' = r.entries
        /\ UNCHANGED <<bkKind, bkPrefix, bkObjects, bkSaved, bkSaves, notBk>>

\* storage.save(name, content) (lines 31-53): the name is resolved by
\* get_available_name and handed to _save.  FileSystemStorage._save writes
\* the file and returns the name; S3Storage._save (lines 389-394) writes
\* the key get_name(name) and returns that key.  A random string that
\* gives a name in use again is drawn again.
BkSave(name, rand) ==
    /\ bkSaves < MaxSaves
    /\ LET avail == get_available_name(bkKind, bkPrefix, bkObjects, bkEntries, name, rand)
           key == IF bkKind = "S3Storage" THEN get_name(bkPrefix, avail.name) ELSE avail.name
       IN  /\ ~exists(bkKind, bkPrefix, bkObjects, avail.entries, avail.name).found
           /\ bkObjects' = {o \in bkObjects : o[1] # key} \cup {<<key, bkSaves + 1>>}
           /\ bkEntries' = avail.entries
           /\ bkSaved' = [name |-> name, final |-> key, content |-> bkSaves + 1]
    /\ bkSaves' = bkSaves + 1
    /\ UNCHANGED <<bkKind, bkPrefix, bkLast, notBk>>

Init == InitBackend /\ InitDesc /\ InitTpl /\ InitSig /\ InitReg /\ InitName /\ InitFs /\ InitConf /\ InitBoot /\ InitGen /\ InitImg /\ InitS3 /\ InitSingle /\ InitSan /\ InitBk

NextSig ==
    \/ \E ch \in Channels, cb \in Callbacks : Connect(ch, cb)
    \/ \E ch \in Channels : Send(ch)

SpecSig == Init /\ [][NextSig]_vars

NextReg ==
    \/ \E id \in Ids, g \in RegGenerators : Register(id, g)
    \/ \E id \in Ids, g \in RegGenerators : Unregister(id, g)
    \/ \E h \in Hosts, cls \in ClassNames, name \in AttrNames : SetSpecId(h, cls, name)

SpecReg == Init /\ [][NextReg]_vars

NextFs ==
    \/ \E w \in Writers, kind \in Kinds : SaveCall(w, kind)
    \/ \E w \in Writers : Resolve(w)
    \/ \E w \in Writers : DirCheck(w)
    \/ \E w \in Writers : MakeDirs(w)
    \/ \E w \in Writers : Move(w)
    \/ \E w \in Writers : Open(w)
    \/ \E w \in Writers : WriteChunk(w)
    \/ \E w \in Writers : SaveReturn(w)

SpecFs == Init /\ [][NextFs]_vars

NextConf == \E kw \in Kwargs : SetConfigs(kw)

SpecConf == Init /\ [][NextConf]_vars

NextBoot ==
    \/ \E vs \in SUBSET Views, kw \in BootKwargs : BootSetConfigs(vs, kw)
    \/ BootSetFlaskApp
    \/ \E accepts \in BOOLEAN : BootScanView(accepts)
    \/ BootReturn
    \/ BootAgain
    \/ \E m \in Models, args \in CtorArgs : Construct(m, args)

SpecBoot == Init /\ [][NextBoot]_vars

NextGen ==
    \/ \E v \in Sources : SetSource(v)
    \/ \E v \in Sources : SetState(v)
    \/ \E fmt \in Formats : GenerateCall(fmt)
    \/ GenCheckSource
    \/ GenOpenImage
    \/ GenReopen
    \/ GenProcess

SpecGen == Init /\ [][NextGen]_vars

NextImg ==
    \E field \in Fields, root \in MediaRoots, prefix \in BasePrefixes, ok \in BOOLEAN :
        GetImage(field, root, prefix, ok)

SpecImg == Init /\ [][NextImg]_vars

NextS3 ==
    \/ \E mode \in Modes : S3Open(mode)
    \/ \E data \in WriteData : S3Write(data)
    \/ S3Close

SpecS3 == Init /\ [][NextS3]_vars

NextSingle == \E class_path \in QNames : GetSingleton(class_path)

SpecSingle == Init /\ [][NextSingle]_vars

NextSan == \E flag \in BOOLEAN, name \in FileNames : GetKey(flag, name)

SpecSan == Init /\ [][NextSan]_vars

NextBk ==
    \/ \E kind \in StorageKinds, prefix \in BasePrefixValues : NewStorage(kind, prefix)
    \/ \E name \in SavedNames \cup {bkSaved.final} : BkExists(name)
    \/ \E name \in SavedNames, rand \in RandomStrings : BkSave(name, rand)

SpecBk == Init /\ [][NextBk]_vars

NextName ==
    \/ \E n \in Names, ml \in MaxLengths : GetAvailableName(n, ml)
    \/ WhileTest
    \/ LoopBody

SpecName == Init /\ [][NextName]_vars

NextDesc ==
    \/ \E i \in Instances : ReadAttr(i)
    \/ \E i \in Instances : DescriptorSet(i)

SpecDesc == Init /\ [][NextDesc]_vars

NextTpl ==
    \/ \E g \in Generators : GenerateImageDefault(g)
    \/ \E g \in Generators : GenerateImageWith(g)
    \/ \E k \in 1..MaxCalls : Render(k)

SpecTpl == Init /\ [][NextTpl]_vars

\* One caller: the calls follow one another (the scheduling model is
\* single-threaded and synchronous).
\* Two callers (threads of the host) generate the same cache file at once;
\* the file may be removed from the storage meanwhile.
ConcStep(c) ==
    \/ CallGenerateNow(c)
    \/ CallStrategy(c)
    \/ GsGet(c)
    \/ GsExists(c)
    \/ GsSet(c)
    \/ GnSetGenerating(c)
    \/ GnGenerateOk(c)
    \/ GnGenerateRaise(c)
    \/ GnSetExists(c)
    \/ GnExcept(c)
    \/ NewFileObject(c)

NextConc == ConcStep(1) \/ ConcStep(2) \/ (\E f \in Files : OobRemove(f))

SpecConc == Init /\ [][NextConc]_vars

NextSeq == CallerStep(1) \/ Environment

SpecSeq == Init /\ [][NextSeq]_vars

\* The calls are repeated and time passes: what the claims about repeated
\* get_state / exists calls assume of the caller and of the clock.
FairSpecSeq ==
    /\ SpecSeq
    /\ WF_vars(CallerStep(1))
    /\ SF_vars(CallExists(1))
    /\ WF_vars(Tick)
    /\ \A f \in Files : WF_vars(DefaultExpire(f))

(***************************************************************************)
(* Claims about the cache-file state backend.                              *)
(***************************************************************************)

\* The recorded state of a name after the step: cache.get of its key.
CacheGetNext(f) == IF present'[f] THEN written'[f].val ELSE None

\* C1: when file._generate raises during generate_now (any file, any force),
\* generate_now returns normally, no error reaches its caller, and the
\* recorded state of the file is DOES_NOT_EXIST when it returns.
C1_FailureIsSoft ==
    [][\A c \in Callers :
         (pc[c] = "gn_except" /\ pc'[c] = "idle")
            => /\ raised'[c] = FALSE
               /\ CacheGetNext(fobj[c]) = DOES_NOT_EXIST]_vars

C1_Witness ==
    \E c \in Callers :
        /\ pc[c] = "idle" /\ op[c] = "generate_now" /\ force[c]
        /\ st[c] \in GenErrors
        /\ ~raised[c]
        /\ CacheGet(fobj[c]) = DOES_NOT_EXIST

\* The transitions the state machine of the specification lists.
ListedTransitions ==
    { <<None, EXISTS>>, <<None, DOES_NOT_EXIST>>,
      <<DOES_NOT_EXIST, GENERATING>>,
      <<GENERATING, EXISTS>>, <<GENERATING, DOES_NOT_EXIST>>,
      <<DOES_NOT_EXIST, None>> }

\* C2 as claimed: every change of the recorded state of a name is one of the
\* listed transitions.
C2_OnlyListedTransitions ==
    [][\A f \in Files :
         CacheGet(f) # CacheGetNext(f)
            => <<CacheGet(f), CacheGetNext(f)>> \in ListedTransitions]_vars

\* The transitions the code adds to the listed ones: a forced generate marks
\* a file GENERATING whatever its state was (EXISTS, or unknown), and an entry
\* written without a timeout (EXISTS, GENERATING) falls back to unknown when
\* the cache's default timeout drops it.
ForcedAndDefaultExpiry ==
    { <<EXISTS, GENERATING>>, <<None, GENERATING>>,
      <<EXISTS, None>>, <<GENERATING, None>> }

\* C2, amended: every change of the recorded state of a name is a listed
\* transition, a forced generate's (EXISTS or unknown to GENERATING), or the
\* expiry of an EXISTS or GENERATING entry (back to unknown).  In particular
\* no call takes DOES_NOT_EXIST to EXISTS or EXISTS to DOES_NOT_EXIST in one
\* change.
C2_Transitions ==
    [][\A f \in Files :
         CacheGet(f) # CacheGetNext(f)
            => <<CacheGet(f), CacheGetNext(f)>>
                   \in ListedTransitions \cup ForcedAndDefaultExpiry]_vars

\* A forced generate_now has marked GENERATING a file recorded as EXISTS.
C2_Witness ==
    \E c \in Callers :
        /\ pc[c] = "gn_generate" /\ force[c]
        /\ CacheGet(fobj[c]) = GENERATING
        /\ ret[c] = "True"

\* C3: a DOES_NOT_EXIST written by set_state is readable at once and gone once
\* existence_check_timeout seconds have passed; an EXISTS or GENERATING is
\* written without a timeout and is still there after that window.
C3_TtlAsymmetry ==
    \A f \in Files :
        /\ written[f].val = DOES_NOT_EXIST
              => /\ written[f].age = 0 => CacheGet(f) = DOES_NOT_EXIST
                 /\ written[f].age < existence_check_timeout => present[f]
                 /\ written[f].age >= existence_check_timeout => CacheGet(f) = None
        /\ (written[f].val \in {EXISTS, GENERATING}
                /\ written[f].age <= existence_check_timeout)
              => /\ written[f].timeout = NoTimeout
                 /\ CacheGet(f) = written[f].val

\* A DOES_NOT_EXIST has expired.
C3_Witness ==
    \E f \in Files :
        /\ written[f].val = DOES_NOT_EXIST
        /\ written[f].age = existence_check_timeout
        /\ CacheGet(f) = None

\* What exists() and get_state() (checking when unknown) last reported to
\* caller c agrees with the storage / says the file exists.
ReportsTruth(c) ==
    /\ (pc[c] = "idle" /\ op[c] = "exists")
          => (ret[c] = "True" <=> stored[fobj[c]])
    /\ (pc[c] = "idle" /\ op[c] = "get_state" /\ chk[c])
          => (ret[c] = EXISTS <=> stored[fobj[c]])

ReportsExists(c) ==
    /\ (pc[c] = "idle" /\ op[c] = "exists") => ret[c] = "True"
    /\ (pc[c] = "idle" /\ op[c] = "get_state" /\ chk[c]) => ret[c] = EXISTS

C5_ReadsAreMemoized ==
    \A i \in Instances :
        /\ prevRead[i] # NoValue => lastRead[i] = prevRead[i]
        /\ builds[i] <= 1

\* C6: after a value was assigned to the attribute of an instance, the next
\* read of it returns that value, and nothing is built.
C6_ReadReturnsAssigned ==
    \A i \in Instances :
        readAfter[i] # NoValue => (lastRead[i] = readAfter[i] /\ builds[i] = 0)

(***************************************************************************)
(* Claims about the template helper.                                       *)
(***************************************************************************)

\* C7: the tag rendered for a generateimage call whose caller passed neither
\* width nor height carries the width and height of that call's own cache
\* file, and its URL as src, whatever was called and rendered before.
C7_TagOfOwnFile ==
    \A k \in 1..Len(renderObj) :
        (tags[k] # EmptyAttrs /\ renderObj[k].supplied \in {"omitted", "empty"})
            => LET file == FileOf(renderObj[k].gen)
               IN  /\ tags[k].width = file.width
                   /\ tags[k].height = file.height
                   /\ tags[k].src = file.url

(***************************************************************************)
(* Claims about the signal channels.                                       *)
(***************************************************************************)

C9_DuplicateRefused ==
    lastReg.op = "register" =>
        /\ lastReg.before # None
              => /\ lastReg.result = "AlreadyRegistered"
                 /\ generators[lastReg.id] = lastReg.before
        /\ lastReg.wasFreed
              => /\ lastReg.result = "ok"
                 /\ generators[lastReg.id] = lastReg.gen

\* An identifier under which a registration was refused has been
\* unregistered and bound again, to another generator.
C9_Witness ==
    /\ lastReg.op = "register"
    /\ lastReg.wasFreed
    /\ rejected[lastReg.id]
    /\ lastReg.result = "ok"
    /\ generators[lastReg.id] = "G2"

(***************************************************************************)
(* Claims about the storage's naming.                                      *)
(***************************************************************************)

\* result is <root>_<7 alphanumeric characters><ext> in the directory of
\* arg, root and ext being those of arg's file name.
HasSuffixForm(result, arg) ==
    LET dir == Split(arg).head
        root == SplitExt(Split(arg).tail).root
        ext == SplitExt(Split(arg).tail).ext
        fname == Split(result).tail
    IN  /\ Split(result).head = dir
        /\ Len(fname) = Len(root) + 1 + 7 + Len(ext)
        /\ Prefix(fname, Len(root)) = root
        /\ fname[Len(root) + 1] = "_"
        /\ \A k \in 1..7 : fname[Len(root) + 1 + k] \in AlnumChars
        /\ Suffix(fname, Len(root) + 8) = ext

\* C10: get_available_name without max_length returns the name it was given
\* when the storage does not hold it; when the storage holds it, the name
\* returned is <root>_<7 alphanumeric characters><ext> in the same directory,
\* and the storage does not hold it at the return.
C10_AvailableName ==
    (gaPc = "done" /\ max_length = NoMaxLength) =>
        /\ ~holds[gaArg] => gaName = gaArg
        /\ holds[gaArg] => /\ HasSuffixForm(gaName, gaArg)
                           /\ gaName \in DOMAIN holds
                           /\ ~holds[gaName]

\* A name with a directory and an extension was taken, and so was the
\* first name tried for it: the name returned is the second.
C10_Witness ==
    /\ gaPc = "done" /\ max_length = NoMaxLength
    /\ gaArg = <<"/", "a", ".">>
    /\ holds[gaArg]
    /\ \E n \in DOMAIN holds : n # gaArg /\ holds[n]
    /\ gaName \in DOMAIN holds /\ ~holds[gaName]

\* result is dir/root_<7 alphanumeric characters>ext.
HasFormOf(result, dir, root, ext) ==
    LET fname == Split(result).tail
    IN  /\ Split(result).head = dir
        /\ Len(fname) = Len(root) + 1 + 7 + Len(ext)
        /\ Prefix(fname, Len(root)) = root
        /\ fname[Len(root) + 1] = "_"
        /\ \A k \in 1..7 : fname[Len(root) + 1 + k] \in AlnumChars
        /\ Suffix(fname, Len(root) + 8) = ext

\* The length of dir_name/file_root_<7 characters>file_ext, and by how much
\* it exceeds max_length.
SuffixedLen ==
    Len(dir_name)
      + (IF dir_name = <<>> \/ dir_name[Len(dir_name)] = "/" THEN 0 ELSE 1)
      + Len(file_root) + 1 + 7 + Len(file_ext)

Overflow == SuffixedLen - max_length

\* C11 as claimed: with max_length supplied, the name returned is no longer
\* than max_length and the storage does not hold it.
C11_WithinMaxLength ==
    (gaPc = "done" /\ max_length # NoMaxLength) =>
        /\ Len(gaName) <= max_length
        /\ ~holds[gaName]

\* C11, amended: with a positive max_length, the name returned is no longer
\* than max_length and the storage does not hold it; a pass of the loop whose
\* new name exceeds max_length cuts the overflow off the end of the file
\* root, and only there (the extension and the 7 characters stay, the new name
\* is max_length long), and fails with SuspiciousFileOperation exactly when
\* no root would be left.
C11_MaxLength ==
    [][max_length > 0 =>
         /\ gaPc' = "done" => (Len(gaName') <= max_length /\ ~holds'[gaName'])
         /\ (gaPc = "body" /\ Overflow <= 0)
               => (gaPc' = "while" /\ file_root' = file_root)
         /\ (gaPc = "body" /\ Overflow > 0 /\ Overflow >= Len(file_root))
               => gaPc' = "SuspiciousFileOperation"
         /\ (gaPc = "body" /\ Overflow > 0 /\ Overflow < Len(file_root))
               => /\ gaPc' = "while"
                  /\ file_root' = Prefix(file_root, Len(file_root) - Overflow)
                  /\ file_ext' = file_ext
                  /\ HasFormOf(gaName', dir_name, file_root', file_ext)
                  /\ Len(gaName') = max_length]_vars

\* A name was taken and too long with its suffix: the name returned has a
\* shortened root and is max_length long.
C11_Witness ==
    /\ gaPc = "done" /\ max_length > 0
    /\ holds[gaArg]
    /\ file_root # <<>>
    /\ Len(file_root) < Len(SplitExt(Split(gaArg).tail).root)
    /\ Len(gaName) = max_length
    /\ ~holds[gaName]

(***************************************************************************)
(* Claims about generation and the storage.                                *)
(***************************************************************************)

\* C13: when generate_now(force=True) succeeds a second time in succession
\* on a cache file (deterministic generator, nothing else touched the
\* storage in between), the recorded state is EXISTS at the return of each
\* call and the bytes under the file's name at the second return are those
\* at the first.
C13_ForcedTwice ==
    [][\A c \in Callers :
         (pc[c] = "gn_set_exists" /\ pc'[c] = "idle" /\ force[c])
            => /\ CacheGetNext(fobj[c]) = EXISTS
               /\ lastGen[fobj[c]].calls = 2
                     => /\ content'[fobj[c]] = lastGen[fobj[c]].bytes
                        /\ content'[fobj[c]] # NoBytes]_vars

\* Two forced generations in succession have returned.
C13_Witness ==
    \E c \in Callers :
        /\ pc[c] = "idle" /\ op[c] = "generate_now" /\ force[c]
        /\ invoked[c] = "returned"
        /\ lastGen[fobj[c]].calls = 2
        /\ content[fobj[c]] = lastGen[fobj[c]].bytes
        /\ CacheGet(fobj[c]) = EXISTS

\* C14: once a cache file was generated, the storage holds the generated
\* bytes under the file's name, and holds bytes of the file under no other
\* name.
C14_SavedUnderOwnName ==
    \A f \in Files :
        lastChange[f] = "generated" => (content[f] = Generated /\ ~aliased[f])

(***************************************************************************)
(* Claims about what one call of the backend does.                         *)
(***************************************************************************)
GenCall(c) == op[c] \in {"generate_now", "generate"}

Returns(c) == pc[c] # "idle" /\ pc'[c] = "idle"

\* The call of caller c wrote the state cache in this step.
WritesCache(c) == writes'[c] = writes[c] + 1

\* An unforced call that read EXISTS or GENERATING has not invoked the
\* routine and has written nothing.
SkipsWhenRecorded(c) ==
    (Returns(c) /\ GenCall(c) /\ ~force[c] /\ seen'[c] \in {EXISTS, GENERATING})
        => (invoked'[c] = "no" /\ writes'[c] = 0)

\* The routine is invoked only in a step after the one that recorded
\* GENERATING.
GeneratingBeforeRoutine(c) ==
    /\ (invoked[c] = "no" /\ invoked'[c] # "no")
          => /\ invoked'[c] = "running"
             /\ WritesCache(c)
             /\ CacheGetNext(fobj[c]) = GENERATING
    /\ (invoked'[c] \in {"returned", "raised"} /\ invoked'[c] # invoked[c])
          => invoked[c] = "running"

\* C19 as stated: an unforced generate_now on a file recorded as EXISTS or
\* GENERATING invokes nothing and writes nothing; a forced one, or one on a
\* file recorded as DOES_NOT_EXIST or not recorded at all, records
\* GENERATING, then invokes the routine, and records EXISTS only after the
\* routine returned.
C19_GeneratesUnlessRecorded ==
    [][\A c \in Callers :
         /\ SkipsWhenRecorded(c)
         /\ GeneratingBeforeRoutine(c)
         /\ (Returns(c) /\ GenCall(c) /\ (force[c] \/ seen'[c] \in {DOES_NOT_EXIST, None}))
               => invoked'[c] \in {"returned", "raised"}
         /\ (GenCall(c) /\ WritesCache(c) /\ CacheGetNext(fobj[c]) = EXISTS)
               => invoked[c] = "returned"]_vars

\* C19, amended: the routine is skipped when get_state returns EXISTS or
\* GENERATING (nothing is written when that state was the recorded one); it
\* is invoked when force is set or get_state returns DOES_NOT_EXIST, after
\* GENERATING was recorded, and the generation records EXISTS only after the
\* routine returned.  A file with nothing recorded that the existence check
\* finds gets EXISTS recorded by get_state and is not generated.
C19_GeneratesUnlessExists ==
    [][\A c \in Callers :
         /\ SkipsWhenRecorded(c)
         /\ GeneratingBeforeRoutine(c)
         /\ (Returns(c) /\ GenCall(c) /\ ~force[c] /\ st'[c] \in {EXISTS, GENERATING})
               => invoked'[c] = "no"
         /\ (Returns(c) /\ GenCall(c) /\ (force[c] \/ st'[c] = DOES_NOT_EXIST))
               => invoked'[c] \in {"returned", "raised"}
         /\ (Returns(c) /\ GenCall(c) /\ ~force[c] /\ seen'[c] = None /\ ex[c])
               => (invoked'[c] = "no" /\ CacheGetNext(fobj[c]) = EXISTS)
         /\ (GenCall(c) /\ invoked[c] # "no" /\ WritesCache(c) /\ CacheGetNext(fobj[c]) = EXISTS)
               => invoked[c] = "returned"]_vars

\* An unforced generate_now on a file recorded as DOES_NOT_EXIST has
\* generated it.
C19_Witness ==
    \E c \in Callers :
        /\ pc[c] = "idle" /\ op[c] = "generate_now" /\ ~force[c]
        /\ seen[c] = DOES_NOT_EXIST
        /\ invoked[c] = "returned" /\ writes[c] = 2
        /\ CacheGet(fobj[c]) = EXISTS

BothSavedSameTarget ==
    /\ \A w \in Writers : svRet[w] # NoName
    /\ svFirst[1] = svFirst[2]

\* C12: when two saves that resolved the same target name have both
\* returned, they returned different names, and the file under each
\* returned name holds all the chunks of the writer it was returned to.
C12_NoClobber ==
    BothSavedSameTarget
        => /\ svRet[1] # svRet[2]
           /\ \A w \in Writers : fsFiles[svRet[w]] = [owner |-> w, chunks |-> ChunkCount]

(***************************************************************************)
(* Claims about the settings and the bootstrap.                            *)
(***************************************************************************)

C17_BootstrapOrder ==
    bootPc = "returned"
        => /\ Len(bootLog) >= 3
           /\ bootLog[1] = "set_configs"
           /\ bootLog[2] = "set_flask_app"
           /\ bootLog[3] = "template_global"
           /\ \A i \in 4..Len(bootLog) : bootLog[i] = "scan"
           /\ \A k \in DOMAIN confKw \cap DOMAIN confAttrs : confAttrs[k] = confKw[k]
           /\ currentApp = App
           /\ "generateimage" \in templateGlobals

(***************************************************************************)
(* Claims about ImageSpec.generate and get_image.                          *)
(***************************************************************************)

\* C18: generate on a spec whose source is missing ends by MissingSource
\* in its first step, before open_image or process_image is called, and
\* that step changes neither the storage nor the state cache.
C18_MissingSourceFirst ==
    [][(spPc = "check" /\ spPc' # "check" /\ ~SourceTruthy(source.value))
          => /\ spResult' = MissingSource
             /\ spPc' = "idle"
             /\ spOpened' = 0 /\ ~spProcessed'
             /\ UNCHANGED <<written, present, stored, content, fsFiles>>]_vars

\* generate has raised MissingSource for a spec without a source, also
\* without one behind _field_data.
C18_Witness ==
    /\ spPc = "idle" /\ spResult = MissingSource
    /\ spSource = NoSource /\ spFieldData = NoFieldData
    /\ spOpened = 0 /\ ~spProcessed

\* What C15 says the resolution of a string is: one beginning with http is
\* fetched as that URL; any other is opened at a path that is the media
\* root, then the prefix, then the string.
ResolvedAsString(string, result) ==
    IF StartsWithHttp(string)
    THEN result.kind \in {"fetched", "Http response error"} /\ result.path = string
    ELSE /\ result.kind \in {"opened", "IOError"}
         /\ result.path = Join(imgRoot, imgPrefix) \o (IF Join(imgRoot, imgPrefix)[Len(Join(imgRoot, imgPrefix))] = "/" THEN <<>> ELSE <<"/">>) \o string

\* C15: get_image takes the first of: a value with to_imagekit is resolved
\* as the string that returns; a value with seek and read is returned
\* itself; a string beginning with http is fetched; any other string is
\* opened under the media root and prefix; anything else fails with the
\* could-not-determine error.
C15_ResolutionOrder ==
    imgResult.kind # "not called"
        => IF imgField.to_imagekit # NoCap THEN ResolvedAsString(imgField.to_imagekit, imgResult)
           ELSE IF imgField.stream THEN imgResult.kind = "field"
           ELSE IF imgField.str # NotString THEN ResolvedAsString(imgField.str, imgResult)
           ELSE imgResult.kind = "Could not determine"

(***************************************************************************)
(* Claims about concurrent generation, strategies and retries.             *)
(***************************************************************************)

\* The generation routine of caller c's unforced generate_now is running.
InFlight(c) ==
    /\ op[c] = "generate_now" /\ ~force[c]
    /\ pc[c] = "gn_generate" /\ invoked[c] = "running"

\* C21: two unforced generate_now calls on one name can have their
\* generation routines running at once, and when they do, each of the two
\* callers had read a state that is neither GENERATING nor EXISTS.
C21_BothReadNotGenerating ==
    \A c, d \in Callers :
        (c # d /\ fobj[c] = fobj[d] /\ InFlight(c) /\ InFlight(d))
            => /\ st[c] \notin {GENERATING, EXISTS}
               /\ st[d] \notin {GENERATING, EXISTS}

\* Two generations of the same name are in flight at once.
C21_Witness ==
    /\ fobj[1] = fobj[2]
    /\ InFlight(1) /\ InFlight(2)
    /\ st[1] = DOES_NOT_EXIST /\ st[2] = DOES_NOT_EXIST

\* A strategy callback of caller c returns in this step and its generation
\* routine, if it ran, did not raise.
StrategyReturns(c) ==
    /\ Returns(c) /\ op[c] \in StrategyMethods
    /\ invoked'[c] # "raised"

\* C22 as stated: when a JustInTime callback returns for a file whose
\* generation succeeds, the recorded state of the file is EXISTS, whatever
\* the state was before.
C22_ExistsOnReturn ==
    [][\A c \in Callers : StrategyReturns(c) => CacheGetNext(fobj[c]) = EXISTS]_vars

\* C22, amended: the same when the state the callback read was not
\* GENERATING; when it was GENERATING the callback returns without
\* generating and writes no state.
C22_ExistsUnlessGenerating ==
    [][\A c \in Callers :
         StrategyReturns(c)
            => IF seen'[c] = GENERATING
               THEN invoked'[c] = "no" /\ writes'[c] = 0
               ELSE CacheGetNext(fobj[c]) = EXISTS]_vars

\* A callback has generated a file that was recorded as DOES_NOT_EXIST.
C22_Witness ==
    \E c \in Callers :
        /\ pc[c] = "idle" /\ op[c] \in StrategyMethods
        /\ seen[c] = DOES_NOT_EXIST /\ invoked[c] = "returned"
        /\ CacheGet(fobj[c]) = EXISTS

\* The unforced generate request of caller c, made after the last generation
\* of its file failed, gets its answer from get_state in this step.
DecidesAfterFailure(c) ==
    /\ GenCall(c) /\ ~force[c]
    /\ lastGen[fobj[c]].failed
    /\ pc[c] \in {"gs_get", "gs_set"}
    /\ pc'[c] \in {"gn_set_generating", "idle"}
    /\ seen'[c] \in {DOES_NOT_EXIST, None}

\* C23 as stated: after a failed generation, the next unforced generate
\* request goes on to generate again, whether it finds the DOES_NOT_EXIST
\* the failure recorded or finds that record expired.
C23_FailureIsRetried ==
    [][\A c \in Callers : DecidesAfterFailure(c) => pc'[c] = "gn_set_generating"]_vars

\* C23, amended: it goes on to generate when it finds the DOES_NOT_EXIST the
\* failure recorded; when that record has expired, it goes on to generate
\* exactly when the existence check finds no file.
C23_RetriedUnlessFound ==
    [][\A c \in Callers :
         DecidesAfterFailure(c)
            => IF seen'[c] = DOES_NOT_EXIST
               THEN pc'[c] = "gn_set_generating"
               ELSE (pc'[c] = "gn_set_generating") = ~ex[c]]_vars

\* A request made after the recheck window of a failure has generated again.
C23_Witness ==
    \E c \in Callers :
        /\ GenCall(c) /\ ~force[c]
        /\ lastGen[fobj[c]].failed
        /\ seen[c] = None /\ ~ex[c]
        /\ pc[c] = "gn_generate"

(***************************************************************************)
(* Claims about the S3 streaming file.                                     *)
(***************************************************************************)

\* C24: the uploaded parts are numbered 1, 2, 3, ... in upload order, none
\* is empty, and every part but the last holds at least the part size.
C24_PartsInOrder ==
    \A i \in 1..Len(s3Parts) :
        /\ s3Parts[i].num = i
        /\ s3Parts[i].data # <<>>
        /\ i < Len(s3Parts) => Len(s3Parts[i].data) >= WriteBufferSize

\* Several parts were uploaded, the last one smaller than the part size.
C24_Witness ==
    /\ Len(s3Parts) >= 2
    /\ Len(s3Parts[Len(s3Parts)].data) < WriteBufferSize
    /\ s3State = "closed"

\* The uploaded parts, one after the other.
RECURSIVE Concat(_)
Concat(parts) ==
    IF parts = <<>> THEN <<>> ELSE parts[1].data \o Concat(Tail(parts))

C26_ScanSurvivesExceptions ==
    /\ bootPc \in {"idle", "set_flask_app", "scan", "returned"}
    /\ bootPc = "returned"
          => \A i \in 1..Len(bootGiven) :
                LET m == ViewModel[bootGiven[i]]
                IN  m # NoModel
                       => \A j \in DOMAIN ModelAttrs[m] :
                             LET x == ModelAttrs[m][j]
                             IN  (~x.private /\ x.field /\ ~x.raises /\ x.source)
                                    => contribDone[<<m, x.name>>] >= 1

\* One run over a view whose class has an attribute that raises when read,
\* then a view whose class has a field without a source: the fields after
\* them are contributed.
C26_Witness ==
    /\ bootPc = "returned" /\ bootRuns = 1
    /\ bootGiven = <<2, 4>>
    /\ contribDone[<<"Model2", "cover">>] = 1
    /\ contribDone[<<"Model1", "thumb">>] = 1
    /\ contribCalls[<<"Model2", "broken">>] = 0
    /\ contribCalls[<<"Model1", "nosource">>] = 0

\* C27: after any number of runs, over any views, contribute_to_class has
\* run at most once for each field of each record class, so the field's
\* source group is registered once and the constructor is wrapped once for
\* it.
C27_ContributedOnce ==
    \A p \in FieldPairs : contribCalls[p] <= 1 /\ contribDone[p] <= 1

\* C28: a construction of a record of a class with a contributed field runs
\* the original constructor and then sends post_init once, and raises
\* nothing; a field without a source is never contributed.
C28_ConstructThenSignal ==
    /\ built.wrapped => (built.ran /\ built.sent = 1 /\ built.raised = None)
    /\ \A p \in FieldPairs : p[2] = "nosource" => (contribCalls[p] = 0 /\ contribDone[p] = 0)

(***************************************************************************)
(* Claims about get_singleton and sanitize_cache_key.                      *)
(***************************************************************************)

\* C29: all the calls of get_singleton that resolve to one class return one
\* and the same instance, and the class is constructed once.
C29_OneInstancePerClass ==
    \A cls \in SingletonClasses :
        /\ constructed[cls] <= 1
        /\ Cardinality(handed[cls]) <= 1

\* C30: with the memcached-safe flag set, the key get_key returns has at
\* most the limit of characters, has no whitespace and no control
\* character, and differs from the key of every other name; with the flag
\* unset it is the key unchanged.
C30_SafeAndDistinct ==
    IF sanFlag
    THEN /\ KeyLen(sanKey) <= KeyLimit
         /\ \A i \in 1..Len(sanKey.text) : sanKey.text[i] \notin {" ", Ctl}
         /\ \A other \in FileNames : other # sanName => get_key(TRUE, other) # sanKey
    ELSE sanKey = [text |-> <<"z">> \o sanName \o <<"z">>, digest |-> NoDigest]

(***************************************************************************)
(* Claims about the state a generation leaves and about save then exists.  *)
(***************************************************************************)

\* C31: when a generate or generate_now call returns, the recorded state of
\* its file is not GENERATING, and when the call had marked the file
\* GENERATING, by force or after reading the state, the state it leaves is
\* EXISTS after a generation that returned and DOES_NOT_EXIST after one
\* that raised.
C31_NeverLeftGenerating ==
    [][\A c \in Callers :
         (Returns(c) /\ GenCall(c))
            => /\ CacheGetNext(fobj[c]) # GENERATING
               /\ invoked'[c] = "returned" => CacheGetNext(fobj[c]) = EXISTS
               /\ invoked'[c] = "raised" => CacheGetNext(fobj[c]) = DOES_NOT_EXIST
               /\ invoked'[c] # "running"]_vars

\* A forced generation of a file that was recorded, whose routine raised,
\* has returned: GENERATING was written, then DOES_NOT_EXIST.
C31_Witness ==
    \E c \in Callers :
        /\ pc[c] = "idle" /\ GenCall(c) /\ force[c]
        /\ invoked[c] = "raised" /\ writes[c] = 2
        /\ stored[fobj[c]]
        /\ CacheGet(fobj[c]) = DOES_NOT_EXIST
\* C32: after save has returned a name, on a FileSystemStorage or on an
\* S3Storage, exists of that name on the same storage object is true and
\* looks at the object the save wrote, whatever exists and save calls came
\* before.
C32_SavedThenExists ==
    bkSaved # NoSave
        => LET r == exists(bkKind, bkPrefix, bkObjects, bkEntries, bkSaved.final)
           IN  /\ r.found
               /\ <<r.key, bkSaved.content>> \in bkObjects

====
